---------------------------- MODULE Spec2Model ----------------------------
(***************************************************************************)
(* A model of the basketball play-by-play pipeline:                        *)
(*   xml_adapters.py       format detection and the vendor adapters        *)
(*   basketball_parser.py  the aggregator (player and team box scores) and *)
(*                         the lineup reconstruction                       *)
(*                                                                         *)
(* Strings are TLA+ strings.  Python's str.lower and the substring test    *)
(* `kw in s` are modelled by the operators Lower and Contains, which are   *)
(* tables over the vocabulary the model uses; a description is the         *)
(* sequence of its space-separated words.                                  *)
(***************************************************************************)
EXTENDS Integers, Sequences, FiniteSets, Bags, TLC

VARIABLES
    root,                 \* the parsed document's root element (its features)
    adapters,             \* AdapterManager.adapters
    adapter,              \* BasketballParser.adapter (format_name) or "none"
    plays,                \* BasketballParser.plays
    live,                 \* hashes of the Element objects alive in this run
    first_run,            \* the plays of an earlier, independent run
    pc,                   \* position of the running operation
    idx,                  \* loop index of the running operation
    player_stats,         \* create_player_stats_dataframe: player_id -> accumulator
    team_stats,           \* create_team_stats_dataframe: team_id -> accumulator
    starting_lineups,     \* BasketballParser.starting_lineups
    current_home_lineup,  \* on-court set, home
    current_away_lineup,  \* on-court set, away
    all_home_players,     \* players observed for the home side
    all_away_players,     \* players observed for the away side
    enhanced_plays,       \* rows of the enhanced play-by-play table
    xml_file,             \* the document at BasketballParser.xml_file_path
    parser,               \* BasketballParser.game_info, .teams, .players
    plays_df,             \* PlayByPlayProcessor.plays_df
    lineup_df             \* PlayByPlayProcessor.lineup_df

vars == << root, adapters, adapter, plays, live, first_run, pc, idx,
           player_stats, team_stats, starting_lineups,
           current_home_lineup, current_away_lineup,
           all_home_players, all_away_players, enhanced_plays,
           xml_file, parser, plays_df, lineup_df >>

parserVars == << xml_file, parser >>
detectVars == << root, adapters, adapter >>
extractVars == << plays, live, first_run, plays_df >>
statsVars == << player_stats, team_stats >>
lineupVars == << starting_lineups, current_home_lineup, current_away_lineup,
                 all_home_players, all_away_players, enhanced_plays,
                 lineup_df >>

(***************************************************************************)
(* Bounds of the model.                                                    *)
(***************************************************************************)
MaxElems == 2      \* play elements of a document (adapter extraction)
MaxPlays == 2      \* events of a stream (aggregator, lineup replay)
MaxAdded == 2      \* add_adapter calls on one manager

(***************************************************************************)
(* Strings.                                                                *)
(***************************************************************************)
\* str.lower() on the vocabulary: every other string of the model is
\* already lower case.
Lower(s) ==
    CASE s = "GOOD" -> "good"         [] s = "MISS" -> "miss"
      [] s = "REBOUND" -> "rebound"   [] s = "ASSIST" -> "assist"
      [] s = "STEAL" -> "steal"       [] s = "BLOCK" -> "block"
      [] s = "TURNOVER" -> "turnover" [] s = "FOUL" -> "foul"
      [] s = "SUB" -> "sub"           [] s = "TIMEOUT" -> "timeout"
      [] s = "JUMPBALL" -> "jumpball" [] s = "3PTR" -> "3ptr"
      [] s = "FT" -> "ft"             [] s = "LAYUP" -> "layup"
      [] s = "OFF" -> "off"           [] s = "DEF" -> "def"
      [] s = "IN" -> "in"             [] s = "OUT" -> "out"
      [] s = "MARTIN,BO" -> "martin,bo"
      [] s = "JONES,AL" -> "jones,al"
      [] s = "STOUT,CY" -> "stout,cy"
      [] s = "HALE,DI" -> "hale,di"
      [] s = "ROSS,ED" -> "ross,ed"
      [] s = "WEBB,DI" -> "webb,di"
      [] s = "PARK,ED" -> "park,ed"
      [] s = "CRUZ,FLO" -> "cruz,flo"
      [] s = "Genius Sports" -> "genius sports"
      [] s = "NBAGame" -> "nbagame"   [] s = "NBA" -> "nba"
      [] OTHER -> s

\* The keywords the code searches for that occur in s (case-sensitive).
Substrings(s) ==
    CASE s = "3pt" -> {"3pt"}
      [] s = "3ptr" -> {"3ptr", "3pt"}
      [] s = "DEF" -> {"DEF"}
      [] s = "OFF" -> {"OFF"}
      [] s = "assist" -> {"assist"}
      [] s = "basketball" -> {"basketball"}
      [] s = "block" -> {"block"}
      [] s = "enters" -> {"enters"}
      [] s = "exits" -> {"exits"}
      [] s = "foul" -> {"foul"}
      [] s = "free_throw" -> {"free_throw"}
      [] s = "ft" -> {"ft"}
      [] s = "good" -> {"good"}
      [] s = "in" -> {"in"}
      [] s = "martin,bo" -> {"in"}
      [] s = "miss" -> {"miss"}
      [] s = "misses" -> {"miss"}
      [] s = "nba" -> {"nba"}
      [] s = "nbagame" -> {"nba", "game"}
      [] s = "bbgame" -> {"game"}
      [] s = "game" -> {"game"}
      [] s = "off" -> {"off"}
      [] s = "offensive" -> {"off", "offensive"}
      [] s = "out" -> {"out"}
      [] s = "rebound" -> {"rebound"}
      [] s = "shot" -> {"shot"}
      [] s = "steal" -> {"steal"}
      [] s = "stout,cy" -> {"out"}
      [] s = "sub" -> {"sub"}
      [] s = "substitution" -> {"sub", "substitution"}
      [] s = "timeout" -> {"timeout", "out"}
      [] s = "turnover" -> {"turnover"}
      [] OTHER -> {}

\* kw in s
Contains(s, kw) == kw \in Substrings(s)

\* kw in description, for a keyword without a space
DescContains(desc, kw) == \E i \in 1..Len(desc) : Contains(desc[i], kw)

\* description.lower()
DescLower(desc) == [i \in 1..Len(desc) |-> Lower(desc[i])]

\* elem.get(key, default)
Get(elem, key, default) ==
    IF key \in DOMAIN elem.attrs THEN elem.attrs[key] ELSE default

\* player_elem.get(key, ''), play.get(key, '')
PGet(p, key) == IF key \in DOMAIN p THEN p[key] ELSE ""

(***************************************************************************)
(* Format detection (xml_adapters.py, can_handle and AdapterManager).      *)
(* A root is [tag, source, venue, plays, league, teams]: its tag, its      *)
(* source attribute, whether a venue / a plays element exists below it,    *)
(* the league attribute found in the tree ("" when none), and its team     *)
(* elements with their player elements.                                    *)
(***************************************************************************)
GeniusCanHandle(r) ==
    \/ r.tag = "bbgame"
    \/ Lower(r.source) = "genius sports"
    \/ r.venue
    \/ r.plays

NBACanHandle(r) ==
    \/ Contains(Lower(r.tag), "nba")
    \/ Contains(Lower(r.tag), "basketball")
    \/ (r.league # "" /\ Contains(Lower(r.league), "nba"))

GenericCanHandle(r) == TRUE

CanHandle(name, r) ==
    CASE name = "genius_sports" -> GeniusCanHandle(r)
      [] name = "nba_pbp" -> NBACanHandle(r)
      [] name = "generic" -> GenericCanHandle(r)
      [] name = "custom" -> r.tag = "bbgame"

\* AdapterManager.__init__
InitialAdapters == << "genius_sports", "nba_pbp", "generic" >>

RECURSIVE FirstMatch(_, _)
FirstMatch(list, r) ==
    IF list = << >> THEN "generic"
    ELSE IF CanHandle(Head(list), r) THEN Head(list)
    ELSE FirstMatch(Tail(list), r)

RECURSIVE LastMatch(_, _)
LastMatch(list, r) ==
    IF list = << >> THEN "generic"
    ELSE IF CanHandle(list[Len(list)], r) THEN list[Len(list)]
    ELSE LastMatch(SubSeq(list, 1, Len(list) - 1), r)

\* AdapterManager.get_adapter
get_adapter(list, r) == FirstMatch(list, r)

(***************************************************************************)
(* The Genius Sports adapter.                                              *)
(***************************************************************************)
_map_action_to_event_type(action, play_type) ==
    LET action_lower == Lower(action)
        play_type_lower == Lower(play_type)
    IN  IF Contains(action_lower, "good")
        THEN IF Contains(play_type_lower, "3ptr") THEN "shot"
             ELSE IF Contains(play_type_lower, "ft") THEN "free_throw"
             ELSE "shot"
        ELSE IF Contains(action_lower, "miss")
        THEN IF Contains(play_type_lower, "ft") THEN "free_throw" ELSE "shot"
        ELSE IF Contains(action_lower, "rebound") THEN "rebound"
        ELSE IF Contains(action_lower, "assist") THEN "assist"
        ELSE IF Contains(action_lower, "steal") THEN "steal"
        ELSE IF Contains(action_lower, "block") THEN "block"
        ELSE IF Contains(action_lower, "turnover") THEN "turnover"
        ELSE IF Contains(action_lower, "foul") THEN "foul"
        ELSE IF Contains(action_lower, "sub") THEN "substitution"
        ELSE IF Contains(action_lower, "timeout") THEN "timeout"
        ELSE action_lower

\* a mapping that gives every made basket 2 points
EveryBasketTwo(action, play_type) ==
    IF Contains(Lower(action), "good") THEN 2 ELSE 0

_calculate_points(action, play_type) ==
    LET action_lower == Lower(action)
        play_type_lower == Lower(play_type)
    IN  IF Contains(action_lower, "good")
        THEN IF Contains(play_type_lower, "3ptr") THEN 3
             ELSE IF Contains(play_type_lower, "ft") THEN 1
             ELSE 2
        ELSE 0

_map_shot_type(play_type) ==
    LET play_type_lower == Lower(play_type)
    IN  IF Contains(play_type_lower, "3ptr") THEN "3pt"
        ELSE IF Contains(play_type_lower, "ft") THEN "free_throw"
        ELSE "2pt"

_build_description(action, play_type, checkname, team) ==
    IF checkname = "" THEN << action, play_type >>
    ELSE IF Contains(Lower(action), "good")
    THEN IF Contains(Lower(play_type), "3ptr")
         THEN << checkname, "makes", "3pt", "shot" >>
         ELSE IF Contains(Lower(play_type), "ft")
         THEN << checkname, "makes", "free", "throw" >>
         ELSE << checkname, "makes", Lower(play_type), "shot" >>
    ELSE IF Contains(Lower(action), "miss")
    THEN IF Contains(Lower(play_type), "ft")
         THEN << checkname, "misses", "free", "throw" >>
         ELSE << checkname, "misses", Lower(play_type), "shot" >>
    ELSE IF Contains(Lower(action), "rebound")
    THEN << checkname,
            IF Contains(Lower(play_type), "off") THEN "offensive"
            ELSE "defensive",
            "rebound" >>
    ELSE IF Contains(Lower(action), "assist") THEN << checkname, "assist" >>
    ELSE IF Contains(Lower(action), "steal")
    THEN << checkname, "steals", "the", "ball" >>
    ELSE IF Contains(Lower(action), "block")
    THEN << checkname, "blocks", "shot" >>
    ELSE IF Contains(Lower(action), "turnover")
    THEN << checkname, "turnover" >>
    ELSE IF Contains(Lower(action), "foul") THEN << checkname, "foul" >>
    ELSE IF Contains(Lower(action), "sub")
    THEN << checkname,
            IF Contains(Lower(play_type), "in") THEN "enters" ELSE "exits",
            "the", "game" >>
    ELSE IF Contains(Lower(action), "timeout") THEN << team, "timeout" >>
    ELSE << checkname, action, play_type >>

\* xml.etree.ElementTree elements have no getparent method
HasGetParent == FALSE

\* int(s) for the numbers the documents of the model use; any other
\* string makes int() raise ValueError
IsInt(s) == s \in {"0", "1", "2", "3"}
ToInt(s) == CASE s = "0" -> 0 [] s = "1" -> 1 [] s = "2" -> 2 [] s = "3" -> 3

\* GeniusSportsAdapter._parse_genius_play; h is hash(play_elem).  The
\* pass-through fields that no operation of the model reads are left out.
_parse_genius_play(elem, h) ==
    LET time == Get(elem, "time", "")
        uni == Get(elem, "uni", "")
        team == Get(elem, "team", "")
        checkname == Get(elem, "checkname", "")
        action == Get(elem, "action", "")
        play_type == Get(elem, "type", "")
        period == IF HasGetParent /\ elem.parent > 0 THEN elem.parent ELSE 1
    IN  [ play_id |-> << "play", h >>,
          period |-> period,
          time |-> time,
          team_id |-> team,
          player_id |-> IF team # "" /\ uni # "" THEN team \o "_" \o uni
                        ELSE "",
          player_name |-> checkname,
          event_type |-> _map_action_to_event_type(action, play_type),
          description |-> _build_description(action, play_type, checkname,
                                             team),
          points |-> _calculate_points(action, play_type),
          shot_type |-> _map_shot_type(play_type),
          rebound_type |-> IF Contains(play_type, "OFF") THEN "offensive"
                           ELSE IF Contains(play_type, "DEF")
                           THEN "defensive" ELSE "",
          substitution_in |-> IF action = "SUB" /\ play_type = "IN" THEN uni
                              ELSE "",
          substitution_out |-> IF action = "SUB" /\ play_type = "OUT"
                               THEN uni ELSE "",
          action |-> action,
          play_type |-> play_type ]

\* GenericXMLAdapter._parse_play_element and NBAPBPAdapter._parse_nba_play
\* read the same attributes.  ParseRaises: an int() raised, the except
\* clause returns None.
ParseRaises(elem) ==
    \/ ~IsInt(Get(elem, "period", "1"))
    \/ ~IsInt(Get(elem, "points", "0"))

_parse_play_element(elem) ==
    [ play_id |-> Get(elem, "id", ""),
      period |-> ToInt(Get(elem, "period", "1")),
      time |-> Get(elem, "time", ""),
      team_id |-> Get(elem, "team_id", ""),
      player_id |-> Get(elem, "player_id", ""),
      event_type |-> Get(elem, "event_type", ""),
      description |-> Get(elem, "description", << >>),
      points |-> ToInt(Get(elem, "points", "0")),
      shot_type |-> Get(elem, "shot_type", ""),
      rebound_type |-> Get(elem, "rebound_type", ""),
      substitution_in |-> Get(elem, "substitution_in", ""),
      substitution_out |-> Get(elem, "substitution_out", "") ]

_parse_nba_play(elem) == _parse_play_element(elem)

\* The body of the extract_plays loop: the plays after one more element.
GeniusAppend(ps, elem, h) ==
    LET play_data == _parse_genius_play(elem, h)
    IN  IF play_data.time = "20:00" /\ play_data.event_type = "substitution"
        THEN ps
        ELSE Append(ps, play_data)

GenericAppend(ps, elem) ==
    IF ParseRaises(elem) THEN ps ELSE Append(ps, _parse_play_element(elem))

NBAAppend(ps, elem) ==
    IF ParseRaises(elem) THEN ps ELSE Append(ps, _parse_nba_play(elem))

\* GeniusSportsAdapter._extract_starting_lineups_from_players: the players
\* with gs = "1", per side, in document order.
RECURSIVE StartersOfTeam(_, _)
StartersOfTeam(team, players) ==
    IF players = << >> THEN << >>
    ELSE LET p == Head(players)
             rest == StartersOfTeam(team, Tail(players))
         IN  IF PGet(p, "gs") = "1"
             THEN << [ player_id |-> team.id \o "_" \o PGet(p, "uni"),
                       player_name |-> PGet(p, "name") ] >> \o rest
             ELSE rest

RECURSIVE StartersOfSide(_, _)
StartersOfSide(teams, side) ==
    IF teams = << >> THEN << >>
    ELSE LET t == Head(teams)
             team_side == IF t.vh = "H" THEN "home" ELSE "away"
         IN  (IF team_side = side THEN StartersOfTeam(t, t.players)
              ELSE << >>) \o StartersOfSide(Tail(teams), side)

_extract_starting_lineups_from_players(r) ==
    [ home |-> StartersOfSide(r.teams, "home"),
      away |-> StartersOfSide(r.teams, "away") ]

NoStarters == [ home |-> << >>, away |-> << >> ]

\* a parser that reads the started flags for every adapter
StartersForEveryAdapter(name, r) == _extract_starting_lineups_from_players(r)

\* BasketballParser.extract_plays, lines 70-74: only the Genius Sports
\* adapter has get_starting_lineups.
StartingLineupsOf(name, r) ==
    IF name = "genius_sports" THEN _extract_starting_lineups_from_players(r)
    ELSE NoStarters

(***************************************************************************)
(* Documents of the model.                                                 *)
(***************************************************************************)
\* hash(play_elem): object identities, distinct for the elements of a tree
Addresses == {"0x7f10", "0x7f20", "0x7f30", "0x7f40"}

ActionCodes == {"GOOD", "MISS", "REBOUND", "ASSIST", "STEAL", "BLOCK",
                "TURNOVER", "FOUL", "SUB", "TIMEOUT", "JUMPBALL", ""}
TypeCodes == {"3PTR", "FT", "LAYUP", "OFF", "DEF", "IN", "OUT", ""}
KnownActions == {"good", "miss", "rebound", "assist", "steal", "block",
                 "turnover", "foul", "sub", "timeout"}

\* a <play> element in the Genius Sports vocabulary, below <period number=par>
\* (par = 0: no enclosing period element)
GeniusElem(a, t, tm, par) ==
    [ attrs |-> [ action |-> a, type |-> t, time |-> tm, team |-> "H",
                  uni |-> "1", checkname |-> "MARTIN,BO" ],
      parent |-> par ]

\* a <play> element in the attribute vocabulary of the NBA and generic adapters
GenericElem(ev, tm, per) ==
    [ attrs |-> [ id |-> "e1", period |-> per, time |-> tm, team_id |-> "H",
                  player_id |-> "H_1", event_type |-> ev ],
      parent |-> 0 ]

MapElems == { GeniusElem(a, t, "19:30", 1) : a \in ActionCodes, t \in TypeCodes }

SeqElems ==
    { GeniusElem("SUB", "IN", "20:00", 1), GeniusElem("SUB", "OUT", "19:30", 2),
      GeniusElem("GOOD", "LAYUP", "20:00", 1),
      GeniusElem("JUMPBALL", "", "19:30", 0),
      GenericElem("substitution", "20:00", "1"),
      GenericElem("substitution", "19:30", "2"),
      GenericElem("shot", "20:00", "OT") }

Docs == { << e >> : e \in MapElems }
        \cup UNION { [1..n -> SeqElems] : n \in 0..MaxElems }

\* team elements with their player elements
NoTeams == << >>
FlaggedTeams ==
    << [ id |-> "H", vh |-> "H",
         players |-> << [ uni |-> "1", name |-> "Bo Martin", gs |-> "1" ],
                        [ uni |-> "2", name |-> "Al Jones", gs |-> "0" ] >> ],
       [ id |-> "A", vh |-> "V",
         players |-> << [ uni |-> "6", name |-> "Cy Stout", gs |-> "1" ] >> ] >>

MkRoot(tag, source, venue, hasPlays, league, teams, elems) ==
    [ tag |-> tag, source |-> source, venue |-> venue, plays |-> hasPlays,
      league |-> league, teams |-> teams, play_elements |-> elems ]

DetectRoots ==
    { MkRoot(tag, source, venue, hasPlays, league, NoTeams, << >>) :
        tag \in {"bbgame", "NBAGame", "basketball", "game"},
        source \in {"", "Genius Sports"},
        venue \in BOOLEAN, hasPlays \in BOOLEAN,
        league \in {"", "NBA"} }

ExtractRoots ==
    { MkRoot(tag, "", FALSE, FALSE, "", teams, elems) :
        tag \in {"bbgame", "NBAGame", "game"},
        teams \in {NoTeams, FlaggedTeams},
        elems \in Docs }

(***************************************************************************)
(* Idle values of the variables an operation does not use.                 *)
(***************************************************************************)
\* a dictionary without keys
EmptyDict == [ k \in {} |-> "" ]

\* BasketballParser.__init__, lines 32-34
EmptyParser == [ game_info |-> EmptyDict, teams |-> {}, players |-> {} ]

\* self.root = None: the tag "" is the tag of no element
NoRoot == MkRoot("", "", FALSE, FALSE, "", NoTeams, << >>)

\* a file that ET.parse cannot read
NoFile == [ well_formed |-> FALSE, root |-> NoRoot ]

\* PlayByPlayProcessor.__init__, line 146: plays_df = None
NoPlaysDf == [ is_none |-> TRUE, rows |-> << >> ]

\* the rows of self.plays_df
Rows == plays_df.rows

IdleParser == xml_file = NoFile /\ parser = EmptyParser
IdleExtract ==
    plays = << >> /\ live = {} /\ first_run = << >> /\ plays_df = NoPlaysDf
IdleStats == player_stats = << >> /\ team_stats = << >>
IdleLineup ==
    /\ starting_lineups = NoStarters
    /\ current_home_lineup = {} /\ current_away_lineup = {}
    /\ all_home_players = {} /\ all_away_players = {}
    /\ enhanced_plays = << >> /\ lineup_df = << >>

(***************************************************************************)
(* Format detection: BasketballParser.parse, line 123.                     *)
(***************************************************************************)
InitDetect ==
    /\ root \in DetectRoots
    /\ adapters = InitialAdapters
    /\ adapter = "none"
    /\ pc = "loaded" /\ idx = 0
    /\ IdleParser /\ IdleExtract /\ IdleStats /\ IdleLineup

GetAdapter ==
    /\ pc = "loaded"
    /\ adapter' = get_adapter(adapters, root)
    /\ pc' = "adapted"
    /\ UNCHANGED << parserVars, root, adapters, idx, extractVars, statsVars,
                    lineupVars >>

NextDetect == GetAdapter

SpecDetect == InitDetect /\ [][NextDetect]_vars

(***************************************************************************)
(* AdapterManager.add_adapter: adapters registered by the caller before    *)
(* the document is detected.  The caller can register another instance of  *)
(* a built-in adapter or an adapter of its own ("custom", which accepts    *)
(* bbgame roots).                                                          *)
(***************************************************************************)
AddableAdapters == {"genius_sports", "nba_pbp", "generic", "custom"}

\* a manager that appends the new adapter
AppendAdapter(list, a) == Append(list, a)

\* self.adapters.insert(0, adapter)
add_adapter(list, a) == << a >> \o list

AddAdapter ==
    /\ pc = "loaded"
    /\ Len(adapters) < Len(InitialAdapters) + MaxAdded
    /\ \E a \in AddableAdapters : adapters' = add_adapter(adapters, a)
    /\ UNCHANGED << parserVars, root, adapter, pc, idx, extractVars,
                    statsVars, lineupVars >>

NextAdd ==
    \/ AddAdapter
    \/ GetAdapter

SpecAdd == InitDetect /\ [][NextAdd]_vars

(***************************************************************************)
(* Extraction: adapter.extract_plays(root), one loop iteration per step,   *)
(* then BasketballParser.extract_plays lines 70-74.                        *)
(***************************************************************************)
InitExtract ==
    /\ root \in ExtractRoots
    /\ adapters = InitialAdapters
    /\ adapter = get_adapter(adapters, root)
    /\ pc = "extract" /\ idx = 0
    /\ IdleParser /\ IdleExtract /\ IdleStats /\ IdleLineup

ExtractPlayGenius ==
    /\ pc = "extract" /\ adapter = "genius_sports"
    /\ idx < Len(root.play_elements)
    /\ \E h \in Addresses \ live :
          /\ plays' = GeniusAppend(plays, root.play_elements[idx + 1], h)
          /\ live' = live \cup {h}
    /\ idx' = idx + 1
    /\ UNCHANGED << parserVars, detectVars, first_run, plays_df, pc,
                    statsVars, lineupVars >>

ExtractPlayNBA ==
    /\ pc = "extract" /\ adapter = "nba_pbp"
    /\ idx < Len(root.play_elements)
    /\ plays' = NBAAppend(plays, root.play_elements[idx + 1])
    /\ idx' = idx + 1
    /\ UNCHANGED << parserVars, detectVars, live, first_run, plays_df, pc,
                    statsVars, lineupVars >>

ExtractPlayGeneric ==
    /\ pc = "extract" /\ adapter = "generic"
    /\ idx < Len(root.play_elements)
    /\ plays' = GenericAppend(plays, root.play_elements[idx + 1])
    /\ idx' = idx + 1
    /\ UNCHANGED << parserVars, detectVars, live, first_run, plays_df, pc,
                    statsVars, lineupVars >>

ExtractDone ==
    /\ pc = "extract"
    /\ idx = Len(root.play_elements)
    /\ starting_lineups' = StartingLineupsOf(adapter, root)
    /\ pc' = "extracted"
    /\ UNCHANGED << parserVars, detectVars, extractVars, idx, statsVars,
                    current_home_lineup, current_away_lineup,
                    all_home_players, all_away_players, enhanced_plays,
                    lineup_df >>

NextExtract ==
    \/ ExtractPlayGenius
    \/ ExtractPlayNBA
    \/ ExtractPlayGeneric
    \/ ExtractDone

SpecExtract == InitExtract /\ [][NextExtract]_vars

(***************************************************************************)
(* Two independent runs over one document: the stream of the first run is  *)
(* kept in first_run, and the second run starts from a fresh parser whose  *)
(* Element objects live wherever the allocator puts them.                  *)
(***************************************************************************)
SecondRun ==
    /\ pc = "extracted" /\ first_run = << >> /\ plays # << >>
    /\ first_run' = plays
    /\ plays' = << >> /\ live' = {}
    /\ idx' = 0
    /\ starting_lineups' = NoStarters
    /\ pc' = "extract"
    /\ UNCHANGED << parserVars, detectVars, plays_df, statsVars,
                    current_home_lineup,
                    current_away_lineup, all_home_players, all_away_players,
                    enhanced_plays, lineup_df >>

NextTwice ==
    \/ ExtractPlayGenius
    \/ ExtractPlayNBA
    \/ ExtractPlayGeneric
    \/ ExtractDone
    \/ SecondRun

SpecTwice == InitExtract /\ [][NextTwice]_vars

(***************************************************************************)
(* The aggregator: PlayByPlayProcessor.create_player_stats_dataframe and   *)
(* create_team_stats_dataframe.  A table is the sequence of its rows, in   *)
(* insertion order of the dictionary it is built from.                     *)
(***************************************************************************)
\* GeniusSportsAdapter.extract_players: player_id -> roster entry, as the
\* set of the entries that have a name
RECURSIVE PlayersOfTeam(_, _)
PlayersOfTeam(team, ps) ==
    IF ps = << >> THEN {}
    ELSE LET p == Head(ps)
         IN  (IF PGet(p, "name") # ""
              THEN { [ player_id |-> team.id \o "_" \o PGet(p, "uni"),
                       team_id |-> team.id, name |-> PGet(p, "name"),
                       jersey |-> PGet(p, "uni") ] }
              ELSE {}) \cup PlayersOfTeam(team, Tail(ps))

RECURSIVE PlayersOfTeams(_)
PlayersOfTeams(teams) ==
    IF teams = << >> THEN {}
    ELSE PlayersOfTeam(Head(teams), Head(teams).players)
         \cup PlayersOfTeams(Tail(teams))

extract_players(r) == PlayersOfTeams(r.teams)

InPlayers(players, pid) == \E p \in players : p.player_id = pid
PlayerInfo(players, pid) == CHOOSE p \in players : p.player_id = pid

\* "LAST,FIRST" -> "First Last", then str.title(), on the names of the model
FormatName(name) ==
    CASE name = "MARTIN,BO" -> "Bo Martin"
      [] name = "JONES,AL" -> "Al Jones"
      [] name = "STOUT,CY" -> "Cy Stout"
      [] name = "HALE,DI" -> "Di Hale"
      [] name = "ROSS,ED" -> "Ed Ross"
      [] name = "WEBB,DI" -> "Di Webb"
      [] name = "PARK,ED" -> "Ed Park"
      [] name = "CRUZ,FLO" -> "Flo Cruz"
      [] OTHER -> name

Counters == { "points", "field_goals_made", "field_goals_attempted",
              "three_points_made", "three_points_attempted",
              "free_throws_made", "free_throws_attempted", "rebounds",
              "offensive_rebounds", "defensive_rebounds", "assists",
              "steals", "blocks", "turnovers", "fouls" }

\* a ratio num/den stands for the float it rounds to; 0.0 is Zero
Zero == [ num |-> 0, den |-> 1 ]

\* lines 322-335 and 418-431
PercentageUnguarded(made, attempted) == [ num |-> made, den |-> attempted ]

Percentage(made, attempted) ==
    IF attempted > 0 THEN [ num |-> made, den |-> attempted ] ELSE Zero

\* lines 199-235: the name of a player seen for the first time
StatsPlayerName(play, players) ==
    LET pid == play.player_id
        n1 == play.player_name
        n2 == IF n1 = "" /\ InPlayers(players, pid)
              THEN PlayerInfo(players, pid).name ELSE n1
        n3 == IF n2 = "" /\ Len(play.description) >= 2
              THEN play.description[1] ELSE n2
        n4 == IF n3 = "" THEN pid ELSE n3
    IN  IF n4 # pid THEN FormatName(n4) ELSE n4

\* lines 242-268
NewPlayerStats(play, players) ==
    [ c \in Counters |-> 0 ] @@
    [ player_id |-> play.player_id,
      player_name |-> StatsPlayerName(play, players),
      team_id |-> play.team_id,
      jersey |-> IF InPlayers(players, play.player_id)
                 THEN PlayerInfo(players, play.player_id).jersey ELSE "",
      minutes_played |-> Zero,
      field_goal_percentage |-> Zero,
      three_point_percentage |-> Zero,
      free_throw_percentage |-> Zero ]

Inc(st, c, n) == [ st EXCEPT ![c] = @ + n ]

\* lines 282-286, reached for a made shot
ThreePointNeverMade(st, play) == Inc(st, "three_points_attempted", 1)

ThreePointUpdate(st, play) ==
    IF Contains(Lower(play.shot_type), "3pt") \/ play.points = 3
    THEN Inc(Inc(st, "three_points_made", 1), "three_points_attempted", 1)
    ELSE Inc(st, "three_points_attempted", 1)

\* an aggregator that counts an attempt only for a made free throw
MadeFreeThrowsOnly(st0, play) ==
    LET event_type == Lower(play.event_type)
        st == IF play.points > 0 THEN Inc(st0, "points", play.points)
              ELSE st0
    IN  IF Contains(event_type, "shot")
        THEN LET a == Inc(st, "field_goals_attempted", 1)
             IN  IF play.points > 0
                 THEN ThreePointUpdate(Inc(a, "field_goals_made", 1), play)
                 ELSE a
        ELSE IF Contains(event_type, "free_throw")
        THEN IF play.points > 0
             THEN Inc(Inc(st, "free_throws_attempted", 1),
                      "free_throws_made", 1)
             ELSE st
        ELSE IF Contains(event_type, "rebound")
        THEN LET a == Inc(st, "rebounds", 1)
             IN  IF Contains(Lower(play.rebound_type), "offensive")
                 THEN Inc(a, "offensive_rebounds", 1)
                 ELSE Inc(a, "defensive_rebounds", 1)
        ELSE IF Contains(event_type, "assist") THEN Inc(st, "assists", 1)
        ELSE IF Contains(event_type, "steal") THEN Inc(st, "steals", 1)
        ELSE IF Contains(event_type, "block") THEN Inc(st, "blocks", 1)
        ELSE IF Contains(event_type, "turnover") THEN Inc(st, "turnovers", 1)
        ELSE IF Contains(event_type, "foul") THEN Inc(st, "fouls", 1)
        ELSE st

\* an aggregator that counts an offensive rebound as defensive too
OffensiveAlsoDefensive(st0, play) ==
    LET event_type == Lower(play.event_type)
        st == IF play.points > 0 THEN Inc(st0, "points", play.points)
              ELSE st0
    IN  IF Contains(event_type, "shot")
        THEN LET a == Inc(st, "field_goals_attempted", 1)
             IN  IF play.points > 0
                 THEN ThreePointUpdate(Inc(a, "field_goals_made", 1), play)
                 ELSE a
        ELSE IF Contains(event_type, "free_throw")
        THEN LET a == Inc(st, "free_throws_attempted", 1)
             IN  IF play.points > 0 THEN Inc(a, "free_throws_made", 1) ELSE a
        ELSE IF Contains(event_type, "rebound")
        THEN LET a == Inc(Inc(st, "rebounds", 1), "defensive_rebounds", 1)
             IN  IF Contains(Lower(play.rebound_type), "offensive")
                 THEN Inc(a, "offensive_rebounds", 1)
                 ELSE a
        ELSE IF Contains(event_type, "assist") THEN Inc(st, "assists", 1)
        ELSE IF Contains(event_type, "steal") THEN Inc(st, "steals", 1)
        ELSE IF Contains(event_type, "block") THEN Inc(st, "blocks", 1)
        ELSE IF Contains(event_type, "turnover") THEN Inc(st, "turnovers", 1)
        ELSE IF Contains(event_type, "foul") THEN Inc(st, "fouls", 1)
        ELSE st

\* lines 270-313
UpdateStats(st0, play) ==
    LET event_type == Lower(play.event_type)
        st == IF play.points > 0 THEN Inc(st0, "points", play.points)
              ELSE st0
    IN  IF Contains(event_type, "shot")
        THEN LET a == Inc(st, "field_goals_attempted", 1)
             IN  IF play.points > 0
                 THEN ThreePointUpdate(Inc(a, "field_goals_made", 1), play)
                 ELSE a
        ELSE IF Contains(event_type, "free_throw")
        THEN LET a == Inc(st, "free_throws_attempted", 1)
             IN  IF play.points > 0 THEN Inc(a, "free_throws_made", 1) ELSE a
        ELSE IF Contains(event_type, "rebound")
        THEN LET a == Inc(st, "rebounds", 1)
             IN  IF Contains(Lower(play.rebound_type), "offensive")
                 THEN Inc(a, "offensive_rebounds", 1)
                 ELSE Inc(a, "defensive_rebounds", 1)
        ELSE IF Contains(event_type, "assist") THEN Inc(st, "assists", 1)
        ELSE IF Contains(event_type, "steal") THEN Inc(st, "steals", 1)
        ELSE IF Contains(event_type, "block") THEN Inc(st, "blocks", 1)
        ELSE IF Contains(event_type, "turnover") THEN Inc(st, "turnovers", 1)
        ELSE IF Contains(event_type, "foul") THEN Inc(st, "fouls", 1)
        ELSE st

RowOf(table, key, id) == CHOOSE i \in 1..Len(table) : table[i][key] = id
HasRow(table, key, id) == \E i \in 1..Len(table) : table[i][key] = id

\* one iteration of the loop of lines 193-313
FoldOne(stats, play, players) ==
    IF play.player_id = "" THEN stats
    ELSE LET withRow == IF HasRow(stats, "player_id", play.player_id)
                        THEN stats
                        ELSE Append(stats, NewPlayerStats(play, players))
             i == RowOf(withRow, "player_id", play.player_id)
         IN  [ withRow EXCEPT ![i] = UpdateStats(@, play) ]

\* _calculate_minutes_played, lines 340-374
PlayCount(ps, pid) == Cardinality({ i \in 1..Len(ps) : ps[i].player_id = pid })

RECURSIVE MaxOf(_)
MaxOf(S) == IF S = {} THEN 0
            ELSE LET x == CHOOSE x \in S : TRUE
                     m == MaxOf(S \ {x})
                 IN  IF x > m THEN x ELSE m

Minutes(ps, stats, pid) ==
    LET max_plays == MaxOf({ PlayCount(ps, stats[i].player_id) :
                             i \in 1..Len(stats) })
        play_count == PlayCount(ps, pid)
    IN  IF 32 * play_count < max_plays THEN [ num |-> 1, den |-> 1 ]
        ELSE [ num |-> 32 * play_count, den |-> max_plays ]

\* lines 315-335
FinishPlayer(ps, stats, st) ==
    [ st EXCEPT
        !.minutes_played = Minutes(ps, stats, st.player_id),
        !.field_goal_percentage =
            Percentage(st.field_goals_made, st.field_goals_attempted),
        !.three_point_percentage =
            Percentage(st.three_points_made, st.three_points_attempted),
        !.free_throw_percentage =
            Percentage(st.free_throws_made, st.free_throws_attempted) ]

\* create_team_stats_dataframe, lines 383-412: one player row added
NewTeamStats(player) ==
    [ c \in Counters |-> 0 ] @@ [ team_id |-> player.team_id ]

TeamAddSkipsFouls(ts, player) ==
    [ k \in DOMAIN ts |->
        IF k \in Counters \ {"fouls"} THEN ts[k] + player[k] ELSE ts[k] ]

TeamAdd(ts, player) ==
    [ k \in DOMAIN ts |-> IF k \in Counters THEN ts[k] + player[k] ELSE ts[k] ]

RECURSIVE TeamFold(_, _)
TeamFold(teams, rows) ==
    IF rows = << >> THEN teams
    ELSE LET player == Head(rows)
             withRow == IF HasRow(teams, "team_id", player.team_id) THEN teams
                        ELSE Append(teams, NewTeamStats(player))
             i == RowOf(withRow, "team_id", player.team_id)
         IN  TeamFold([ withRow EXCEPT ![i] = TeamAdd(@, player) ],
                      Tail(rows))

\* lines 414-431
FinishTeam(ts) ==
    ts @@ [ field_goal_percentage |->
                Percentage(ts.field_goals_made, ts.field_goals_attempted),
            three_point_percentage |->
                Percentage(ts.three_points_made, ts.three_points_attempted),
            free_throw_percentage |->
                Percentage(ts.free_throws_made, ts.free_throws_attempted) ]

create_team_stats(rows) ==
    LET teams == TeamFold(<< >>, rows)
    IN  [ i \in 1..Len(teams) |-> FinishTeam(teams[i]) ]

(***************************************************************************)
(* Event streams of the model: what the Genius Sports adapter emits for a  *)
(* document, the i-th element object having the i-th address.              *)
(***************************************************************************)
AddressSeq == << "0x7f10", "0x7f20", "0x7f30", "0x7f40", "0x7f50",
                 "0x7f60", "0x7f70", "0x7f80", "0x7f90", "0x7fa0" >>

PlayElem(a, t, tm, team, uni, checkname) ==
    [ attrs |-> [ action |-> a, type |-> t, time |-> tm, team |-> team,
                  uni |-> uni, checkname |-> checkname ],
      parent |-> 1 ]

RECURSIVE EmitFrom(_, _)
EmitFrom(elems, i) ==
    IF i > Len(elems) THEN << >>
    ELSE GeniusAppend(<< >>, elems[i], AddressSeq[i]) \o EmitFrom(elems, i + 1)

GeniusStream(elems) == EmitFrom(elems, 1)

GeniusRoot == MkRoot("bbgame", "Genius Sports", TRUE, TRUE, "",
                     FlaggedTeams, << >>)

(***************************************************************************)
(* BasketballParser.parse: load_xml, adapter selection and the four        *)
(* extraction steps.  A dictionary keyed by an identifier is the set of    *)
(* its entries, each carrying its key.                                     *)
(***************************************************************************)
\* load_xml, lines 39-47: ET.parse raises on an unreadable document
LoadIgnoresError(file) == [ ok |-> TRUE, root |-> file.root ]

load_xml(file) ==
    IF file.well_formed THEN [ ok |-> TRUE, root |-> file.root ]
    ELSE [ ok |-> FALSE, root |-> NoRoot ]

\* a or b on strings
OrElse(a, b) == IF a # "" THEN a ELSE b

\* extract_game_info of the three adapters: the venue of the model's
\* documents names the teams "H" and "A"; the root is the only element
\* whose tag can contain 'game'
RootAttrib(r) == IF r.source # "" THEN [ source |-> r.source ] ELSE EmptyDict

extract_game_info(name, r) ==
    IF name = "genius_sports"
    THEN IF r.venue
         THEN [ home_id |-> "H", away_id |-> "A", source |-> r.source ]
         ELSE [ source |-> r.source ]
    ELSE IF name = "generic" /\ Contains(Lower(r.tag), "game")
    THEN RootAttrib(r)
    ELSE EmptyDict

\* extract_teams of the three adapters (a missing name attribute is '' for
\* the Genius and generic adapters, None for the NBA adapter)
extract_teams(name, r) ==
    { [ team_id |-> r.teams[i].id,
        name |-> IF name = "nba_pbp" THEN "None" ELSE "",
        players |-> {} ] :
      i \in { j \in 1..Len(r.teams) : r.teams[j].id # "" } }

\* root.findall('.//player'): the player elements in document order, each
\* with the id of the team element around it
RECURSIVE PlayerElems(_)
PlayerElems(teams) ==
    IF teams = << >> THEN << >>
    ELSE [ i \in 1..Len(Head(teams).players) |->
             [ team |-> Head(teams).id, elem |-> Head(teams).players[i] ] ]
         \o PlayerElems(Tail(teams))

\* the identifier an adapter gives a roster entry, "" when the entry is not
\* registered
RosterId(name, e) ==
    IF name = "genius_sports"
    THEN IF PGet(e.elem, "name") # ""
         THEN e.team \o "_" \o PGet(e.elem, "uni") ELSE ""
    ELSE IF name = "generic"
    THEN OrElse(PGet(e.elem, "id"), PGet(e.elem, "player_id"))
    ELSE PGet(e.elem, "id")

\* the team_id and the jersey the adapter records for the entry
RosterTeam(name, e) ==
    IF name = "genius_sports" THEN e.team
    ELSE IF name = "generic"
    THEN OrElse(PGet(e.elem, "team_id"), PGet(e.elem, "team"))
    ELSE PGet(e.elem, "team_id")

RosterJersey(name, e) ==
    IF name = "genius_sports" THEN PGet(e.elem, "uni")
    ELSE IF name = "generic"
    THEN OrElse(PGet(e.elem, "jersey"), PGet(e.elem, "number"))
    ELSE PGet(e.elem, "jersey")

\* GenericXMLAdapter.extract_players and NBAPBPAdapter.extract_players: a
\* later element with the same identifier replaces the earlier entry
RECURSIVE KeyedPlayers(_, _, _)
KeyedPlayers(name, elems, acc) ==
    IF elems = << >> THEN acc
    ELSE LET e == Head(elems)
             pid == RosterId(name, e)
             entry == [ player_id |-> pid, team_id |-> RosterTeam(name, e),
                        name |-> PGet(e.elem, "name"),
                        jersey |-> RosterJersey(name, e) ]
         IN  KeyedPlayers(name, Tail(elems),
                 IF pid = "" THEN acc
                 ELSE { q \in acc : q.player_id # pid } \cup {entry})

ExtractPlayersOf(name, r) ==
    IF name = "genius_sports" THEN extract_players(r)
    ELSE KeyedPlayers(name, PlayerElems(r.teams), {})

\* BasketballParser.extract_players, lines 61-64
WithTeamPlayers(teams, players) ==
    { [ t EXCEPT !.players = { q.player_id : q \in { x \in players :
                                   x.team_id = t.team_id } } ] : t \in teams }

\* adapter.extract_plays(root)
RECURSIVE GenericStream(_)
GenericStream(elems) ==
    IF elems = << >> THEN << >>
    ELSE GenericAppend(<< >>, Head(elems)) \o GenericStream(Tail(elems))

RECURSIVE NBAStream(_)
NBAStream(elems) ==
    IF elems = << >> THEN << >>
    ELSE NBAAppend(<< >>, Head(elems)) \o NBAStream(Tail(elems))

ExtractPlaysOf(name, r) ==
    IF name = "genius_sports" THEN GeniusStream(r.play_elements)
    ELSE IF name = "nba_pbp" THEN NBAStream(r.play_elements)
    ELSE GenericStream(r.play_elements)

\* the parser after a successful parse()
ParserOf(name, r) ==
    [ game_info |-> extract_game_info(name, r),
      teams |-> WithTeamPlayers(extract_teams(name, r),
                                ExtractPlayersOf(name, r)),
      players |-> ExtractPlayersOf(name, r) ]

(***************************************************************************)
(* PlayByPlayProcessor.create_plays_dataframe.                             *)
(***************************************************************************)
\* _time_to_seconds, on the clock values of the model
_time_to_seconds(time_str) ==
    CASE time_str = "20:00" -> 1200 [] time_str = "19:30" -> 1170
      [] time_str = "15:00" -> 900  [] time_str = "14:40" -> 880
      [] OTHER -> 0

\* self.parser.teams.get(x, {}).get('name', '')
NameIn(dict, key, id) ==
    IF \E e \in dict : e[key] = id
    THEN (CHOOSE e \in dict : e[key] = id).name ELSE ""

\* the reverse of the row order
Reversed(rows) == [ i \in 1..Len(rows) |-> rows[Len(rows) + 1 - i] ]

\* DataFrame(self.parser.plays): one row per play, in list order
RowsOf(rows) == rows

\* lines 153-171: self.plays_df after the call (an empty list returns before
\* the assignment of line 171)
create_plays_dataframe(df, ps, prs) ==
    IF ps = << >> THEN df
    ELSE [ is_none |-> FALSE,
           rows |-> RowsOf([ i \in 1..Len(ps) |->
               ps[i] @@
               [ team_name |-> NameIn(prs.teams, "team_id", ps[i].team_id),
                 assist_player_name |->
                     NameIn(prs.players, "player_id",
                            PGet(ps[i], "assist_player_id")),
                 foul_player_name |->
                     NameIn(prs.players, "player_id",
                            PGet(ps[i], "foul_player_id")),
                 time_seconds |-> _time_to_seconds(ps[i].time) ] ]) ]

(***************************************************************************)
(* parse() as a run: one step per call of lines 119-129.                   *)
(***************************************************************************)
\* a roster in the attribute vocabulary of the NBA and generic adapters, by
\* a feed that numbers the players of each team from 1
NumberedTeams ==
    << [ id |-> "H", vh |-> "H",
         players |-> << [ id |-> "1", team_id |-> "H", jersey |-> "1",
                          name |-> "Bo Martin" ],
                        [ id |-> "2", team_id |-> "H", jersey |-> "2",
                          name |-> "Al Jones" ] >> ],
       [ id |-> "A", vh |-> "V",
         players |-> << [ id |-> "1", team_id |-> "A", jersey |-> "1",
                          name |-> "Di Hale" ] >> ] >>

ParseRoots ==
    { MkRoot(tag, source, venue, FALSE, "", teams, elems) :
        tag \in {"bbgame", "NBAGame", "game"},
        source \in {"", "Genius Sports"},
        venue \in BOOLEAN,
        teams \in {NoTeams, FlaggedTeams, NumberedTeams},
        elems \in UNION { [1..n -> SeqElems] : n \in 0..MaxElems } }

ParseFiles == {NoFile} \cup { [ well_formed |-> TRUE, root |-> r ] :
                                r \in ParseRoots }

InitParse ==
    /\ xml_file \in ParseFiles
    /\ parser = EmptyParser
    /\ root = NoRoot
    /\ adapters = InitialAdapters
    /\ adapter = "none"
    /\ pc = "parse" /\ idx = 0
    /\ IdleExtract /\ IdleStats /\ IdleLineup

\* lines 119-120
LoadXml ==
    /\ pc = "parse"
    /\ root' = load_xml(xml_file).root
    /\ pc' = IF load_xml(xml_file).ok THEN "loaded" ELSE "returned_false"
    /\ UNCHANGED << parserVars, adapters, adapter, idx, extractVars,
                    statsVars, lineupVars >>

\* line 125
ExtractGameInfo ==
    /\ pc = "adapted"
    /\ parser' = [ parser EXCEPT
                     !.game_info = extract_game_info(adapter, root) ]
    /\ pc' = "game_info"
    /\ UNCHANGED << xml_file, detectVars, idx, extractVars, statsVars,
                    lineupVars >>

\* line 126
ExtractTeams ==
    /\ pc = "game_info"
    /\ parser' = [ parser EXCEPT !.teams = extract_teams(adapter, root) ]
    /\ pc' = "teams"
    /\ UNCHANGED << xml_file, detectVars, idx, extractVars, statsVars,
                    lineupVars >>

\* line 127
ExtractPlayers ==
    /\ pc = "teams"
    /\ parser' = [ parser EXCEPT
                     !.players = ExtractPlayersOf(adapter, root),
                     !.teams = WithTeamPlayers(@,
                                   ExtractPlayersOf(adapter, root)) ]
    /\ pc' = "players"
    /\ UNCHANGED << xml_file, detectVars, idx, extractVars, statsVars,
                    lineupVars >>

\* lines 128-130
ExtractPlays ==
    /\ pc = "players"
    /\ plays' = ExtractPlaysOf(adapter, root)
    /\ starting_lineups' = StartingLineupsOf(adapter, root)
    /\ pc' = "returned_true"
    /\ UNCHANGED << parserVars, detectVars, idx, live, first_run, plays_df,
                    statsVars, current_home_lineup, current_away_lineup,
                    all_home_players, all_away_players, enhanced_plays,
                    lineup_df >>

NextParse ==
    \/ LoadXml
    \/ GetAdapter
    \/ ExtractGameInfo
    \/ ExtractTeams
    \/ ExtractPlayers
    \/ ExtractPlays

SpecParse == InitParse /\ [][NextParse]_vars

\* (team, uni, checkname) of the play elements
StatsActors == { << "H", "1", "MARTIN,BO" >>, << "A", "6", "STOUT,CY" >>,
                 << "H", "2", "" >>, << "H", "", "" >> }

AllStatsElems ==
    { PlayElem(a, t, "19:30", p[1], p[2], p[3]) :
        a \in ActionCodes, t \in TypeCodes, p \in StatsActors }

SeqStatsElems ==
    { PlayElem("GOOD", "3PTR", "19:30", "H", "1", "MARTIN,BO"),
      PlayElem("GOOD", "LAYUP", "19:30", "H", "1", "MARTIN,BO"),
      PlayElem("MISS", "3PTR", "19:30", "H", "2", ""),
      PlayElem("GOOD", "FT", "19:30", "H", "2", ""),
      PlayElem("MISS", "FT", "19:30", "A", "6", "STOUT,CY"),
      PlayElem("REBOUND", "DEF", "19:30", "A", "6", "STOUT,CY"),
      PlayElem("REBOUND", "OFF", "19:30", "H", "1", "MARTIN,BO"),
      PlayElem("FOUL", "", "19:30", "A", "6", "STOUT,CY") }

StatsDocs == { << e >> : e \in AllStatsElems }
             \cup UNION { [1..n -> SeqStatsElems] : n \in 0..MaxPlays }

InitStats ==
    /\ root = GeniusRoot
    /\ adapters = InitialAdapters
    /\ adapter = "genius_sports"
    /\ \E d \in StatsDocs : plays = GeniusStream(d)
    /\ live = {} /\ first_run = << >>
    /\ xml_file = [ well_formed |-> TRUE, root |-> root ]
    /\ parser = ParserOf(adapter, root)
    /\ plays_df = create_plays_dataframe(NoPlaysDf, plays, parser)
    /\ pc = "fold" /\ idx = 0
    /\ IdleStats /\ IdleLineup

\* create_plays_dataframe leaves plays_df None for an empty stream, and
\* line 193 raises AttributeError
StatsRaise ==
    /\ pc = "fold" /\ plays_df.is_none
    /\ pc' = "raised"
    /\ UNCHANGED << parserVars, detectVars, extractVars, idx, statsVars,
                    lineupVars >>

\* line 203: play['player_name'] on a row of an adapter that emits no
\* player_name raises KeyError
FoldRaises(stats, play) ==
    /\ play.player_id # ""
    /\ ~HasRow(stats, "player_id", play.player_id)
    /\ "player_name" \notin DOMAIN play

FoldPlay ==
    /\ pc = "fold" /\ ~plays_df.is_none
    /\ idx < Len(Rows)
    /\ ~FoldRaises(player_stats, Rows[idx + 1])
    /\ player_stats' = FoldOne(player_stats, Rows[idx + 1], parser.players)
    /\ idx' = idx + 1
    /\ UNCHANGED << parserVars, detectVars, extractVars, pc, team_stats,
                    lineupVars >>

FinishPlayerStats ==
    /\ pc = "fold" /\ ~plays_df.is_none
    /\ idx = Len(Rows)
    /\ player_stats' = [ i \in 1..Len(player_stats) |->
                           FinishPlayer(Rows, player_stats, player_stats[i]) ]
    /\ pc' = "player_stats_done"
    /\ UNCHANGED << parserVars, detectVars, extractVars, idx, team_stats,
                    lineupVars >>

CreateTeamStats ==
    /\ pc = "player_stats_done"
    /\ team_stats' = create_team_stats(player_stats)
    /\ pc' = "team_stats_done"
    /\ UNCHANGED << parserVars, detectVars, extractVars, idx, player_stats,
                    lineupVars >>

NextStats ==
    \/ StatsRaise
    \/ FoldPlay
    \/ FinishPlayerStats
    \/ CreateTeamStats

SpecStats == InitStats /\ [][NextStats]_vars

(***************************************************************************)
(* Lineup reconstruction:                                                  *)
(* PlayByPlayProcessor.create_enhanced_play_by_play_dataframe.             *)
(* A Python set has no order the program controls: list(s)[:5] is any five *)
(* members of s, and the first member of an iteration that passes a test   *)
(* is any member that passes it.  A lineup snapshot is the bag of the      *)
(* names joined into the home_lineup / away_lineup column.                 *)
(***************************************************************************)
LineupSize == 5
EarlyPlays == 20

\* game_info.get('home_id', 'WF') and game_info.get('away_id', 'Mich'),
\* lines 508-509
HomeTeamId ==
    IF "home_id" \in DOMAIN parser.game_info THEN parser.game_info.home_id
    ELSE "WF"
AwayTeamId ==
    IF "away_id" \in DOMAIN parser.game_info THEN parser.game_info.away_id
    ELSE "Mich"

TeamIds == {"H", "A"}
Unis == {"1", "2", "3", "4", "5", "6", "7"}

\* '_' in player_id, and player_id.split('_')[1]
HasUnderscore(pid) == \E t \in TeamIds, u \in Unis : pid = t \o "_" \o u
JerseyOf(pid) == CHOOSE u \in Unis : \E t \in TeamIds : pid = t \o "_" \o u

\* list(s)[:5]
NoLimit(S) == {S}

FirstFive(S) ==
    IF Cardinality(S) <= LineupSize THEN {S}
    ELSE { T \in SUBSET S : Cardinality(T) = LineupSize }

Min(a, b) == IF a < b THEN a ELSE b

\* lines 516-521
StarterIds(list) == { list[i].player_id : i \in 1..Len(list) }

\* lines 531-543: the players of a team in the first 20 plays
EarlyPlayers(ps, team) ==
    { ps[i].player_id : i \in { j \in 1..Min(EarlyPlays, Len(ps)) :
                                  /\ ps[j].player_id # ""
                                  /\ ps[j].team_id # ""
                                  /\ ps[j].team_id = team } }

\* lines 558-566: the players of a team in any play
SeenPlayers(ps, team) ==
    { ps[i].player_id : i \in { j \in 1..Len(ps) :
                                  /\ ps[j].player_id # ""
                                  /\ ps[j].team_id # ""
                                  /\ ps[j].team_id = team } }

\* lines 613-616: the name a starters list gives a player ("" when none)
StarterName(list, pid) ==
    IF \E i \in 1..Len(list) : list[i].player_id = pid
    THEN list[CHOOSE i \in 1..Len(list) :
                /\ list[i].player_id = pid
                /\ \A j \in 1..(i - 1) : list[j].player_id # pid].player_name
    ELSE ""

\* lines 620-623: the name of the first play row of the player that has one
FirstPlayName(ps, pid) ==
    LET rows == { i \in 1..Len(ps) :
                    ps[i].player_id = pid /\ ps[i].player_name # "" }
    IN  IF rows = {} THEN ""
        ELSE ps[CHOOSE i \in rows : \A j \in rows : i <= j].player_name

\* lines 608-641 (and 696-727): the name appended for a player, "" when
\* nothing is appended
LineupName(pid, players, starters, ps) ==
    LET n1 == IF InPlayers(players, pid) THEN PlayerInfo(players, pid).name
              ELSE StarterName(starters, pid)
        n2 == IF n1 = "" THEN FirstPlayName(ps, pid) ELSE n1
        n3 == IF n2 = "" /\ pid # "" /\ HasUnderscore(pid)
              THEN "Player #" \o JerseyOf(pid) ELSE n2
    IN  IF n3 # "" THEN FormatName(n3) ELSE ""

\* lines 607-641: the names of the players shown, as a bag
RECURSIVE NamesOf(_, _, _, _)
NamesOf(S, players, starters, ps) ==
    IF S = {} THEN EmptyBag
    ELSE LET pid == CHOOSE x \in S : TRUE
             name == LineupName(pid, players, starters, ps)
             rest == NamesOf(S \ {pid}, players, starters, ps)
         IN  IF name # "" THEN SetToBag({name}) (+) rest ELSE rest

\* n copies of one name
Copies(name, n) == IF n > 0 THEN [ x \in {name} |-> n ] ELSE EmptyBag

\* lines 681-729: the players the fill loop can take: observed for the
\* team, not on court, and with a name
FillCandidates(all, current, players, starters, ps) ==
    { pid \in all : pid \notin current
                    /\ LineupName(pid, players, starters, ps) # "" }

\* every pass of the while loop of line 681 restarts the iteration over the
\* unchanged set and appends the same player's name
FillNames(names, cand, players, starters, ps) ==
    names (+) Copies(LineupName(cand, players, starters, ps),
                     LineupSize - BagCardinality(names))

\* lines 783-786
RECURSIVE PlaceholderBag(_)
PlaceholderBag(n) ==
    IF n <= 0 THEN EmptyBag
    ELSE SetToBag({ "Player #" \o ToString(n) }) (+) PlaceholderBag(n - 1)

Placeholders(names) ==
    names (+) PlaceholderBag(LineupSize - BagCardinality(names))

\* lines 572-589: the on-court and observed sets after the description of a
\* substitution event has been acted on
ApplySubstitution(play, L) ==
    LET pid == play.player_id
        team_id == play.team_id
        description == DescLower(play.description)
    IN  IF DescContains(description, "enters")
           \/ DescContains(description, "in")
        THEN IF team_id = HomeTeamId
             THEN [ L EXCEPT !.home = @ \cup {pid}, !.all_home = @ \cup {pid} ]
             ELSE IF team_id = AwayTeamId
             THEN [ L EXCEPT !.away = @ \cup {pid}, !.all_away = @ \cup {pid} ]
             ELSE L
        ELSE IF DescContains(description, "exits")
                \/ DescContains(description, "out")
        THEN IF team_id = HomeTeamId /\ pid \in L.home
             THEN [ L EXCEPT !.home = @ \ {pid} ]
             ELSE IF team_id = AwayTeamId /\ pid \in L.away
             THEN [ L EXCEPT !.away = @ \ {pid} ]
             ELSE L
        ELSE L

IsSubstitution(play) == Contains(Lower(play.event_type), "substitution")

\* a replay that clamps both sets at every event
ClampAtEveryEvent(play, L) ==
    LET M == IF IsSubstitution(play) THEN ApplySubstitution(play, L) ELSE L
    IN  { [ M EXCEPT !.home = h, !.away = a ] :
            h \in FirstFive(M.home), a \in FirstFive(M.away) }

\* lines 568-597: the possible on-court sets after the event
AfterEvent(play, L) ==
    IF IsSubstitution(play)
    THEN LET M == ApplySubstitution(play, L)
         IN  { [ M EXCEPT !.home = h, !.away = a ] :
                 h \in FirstFive(M.home), a \in FirstFive(M.away) }
    ELSE {L}

Lineups == [ home |-> current_home_lineup, away |-> current_away_lineup,
             all_home |-> all_home_players, all_away |-> all_away_players ]

\* a row numbered by a counter that restarts at every event
RowNumberedAfresh(play, home_names, away_names) ==
    [ play_id |-> << "play", "0" >>, event_type |-> play.event_type,
      player |-> play.player_name, points |-> play.points,
      home_lineup |-> home_names, away_lineup |-> away_names ]

\* lines 793-811
EnhancedRow(play, home_names, away_names) ==
    [ play_id |-> play.play_id, event_type |-> play.event_type,
      player |-> play.player_name, points |-> play.points,
      home_lineup |-> home_names, away_lineup |-> away_names ]

(***************************************************************************)
(* Games of the lineup model: a Genius Sports document whose two rosters   *)
(* list six players each, the first k of them flagged as starters, and a   *)
(* stream of substitutions and shots.  H_7 is on no roster.                *)
(***************************************************************************)
HomeRoster == << << "1", "Bo Martin" >>, << "2", "Al Jones" >>,
                 << "3", "Di Webb" >>, << "4", "Ed Park" >>,
                 << "5", "Flo Cruz" >>, << "6", "Cy Stout" >> >>

AwayRoster == << << "1", "Di Hale" >>, << "2", "Gil Moss" >>,
                 << "3", "Hal Pope" >>, << "4", "Ian Reed" >>,
                 << "5", "Jo Lamb" >>, << "6", "Ed Ross" >> >>

RosterPlayers(roster, k) ==
    [ i \in 1..Len(roster) |->
        [ uni |-> roster[i][1], name |-> roster[i][2],
          gs |-> IF i <= k THEN "1" ELSE "0" ] ]

LineupTeams(kh, ka) ==
    << [ id |-> "H", vh |-> "H", players |-> RosterPlayers(HomeRoster, kh) ],
       [ id |-> "A", vh |-> "V", players |-> RosterPlayers(AwayRoster, ka) ] >>

StarterCounts == { << 5, 5 >>, << 6, 5 >>, << 5, 6 >>, << 3, 5 >>,
                   << 5, 3 >>, << 0, 0 >>, << 0, 5 >> }

LineupRoot(kh, ka) ==
    MkRoot("bbgame", "Genius Sports", TRUE, TRUE, "", LineupTeams(kh, ka),
           << >>)

LineupElems ==
    { PlayElem("SUB", "OUT", "15:00", "H", "1", "MARTIN,BO"),
      PlayElem("SUB", "OUT", "15:00", "H", "2", "JONES,AL"),
      PlayElem("SUB", "IN", "15:00", "H", "6", "STOUT,CY"),
      PlayElem("SUB", "IN", "15:00", "H", "7", ""),
      PlayElem("GOOD", "LAYUP", "14:40", "H", "2", "JONES,AL"),
      PlayElem("SUB", "OUT", "15:00", "A", "1", "HALE,DI"),
      PlayElem("SUB", "IN", "15:00", "A", "6", "ROSS,ED") }

LineupDocs == UNION { [1..n -> LineupElems] : n \in 0..MaxPlays }

Roster == parser.players

InitLineup ==
    /\ \E k \in StarterCounts : root = LineupRoot(k[1], k[2])
    /\ adapters = InitialAdapters
    /\ adapter = "genius_sports"
    /\ \E d \in LineupDocs : plays = GeniusStream(d)
    /\ live = {} /\ first_run = << >>
    /\ xml_file = [ well_formed |-> TRUE, root |-> root ]
    /\ parser = ParserOf(adapter, root)
    /\ plays_df = create_plays_dataframe(NoPlaysDf, plays, parser)
    /\ pc = "lineup" /\ idx = 0
    /\ IdleStats
    /\ starting_lineups = StartingLineupsOf(adapter, root)
    /\ current_home_lineup = {} /\ current_away_lineup = {}
    /\ all_home_players = {} /\ all_away_players = {}
    /\ enhanced_plays = << >> /\ lineup_df = << >>

\* lines 501-502 and 531 / 558: plays_df is still None after
\* create_plays_dataframe on an empty stream; .head / .iterrows raises
LineupRaise ==
    /\ pc = "lineup" /\ plays_df.is_none
    /\ pc' = "raised"
    /\ UNCHANGED << parserVars, detectVars, extractVars, idx, statsVars,
                    lineupVars >>

\* lines 504-566: starters, or the players seen early when a side has none
StartReplay ==
    /\ pc = "lineup" /\ ~plays_df.is_none
    /\ LET home_lineup == StarterIds(starting_lineups.home)
           away_lineup == StarterIds(starting_lineups.away)
           infer == Cardinality(home_lineup) = 0
                    \/ Cardinality(away_lineup) = 0
       IN  /\ \E h \in (IF infer /\ Cardinality(home_lineup) = 0
                        THEN FirstFive(EarlyPlayers(Rows, HomeTeamId))
                        ELSE {home_lineup}),
                a \in (IF infer /\ Cardinality(away_lineup) = 0
                       THEN FirstFive(EarlyPlayers(Rows, AwayTeamId))
                       ELSE {away_lineup}) :
                /\ current_home_lineup' = h
                /\ current_away_lineup' = a
                /\ all_home_players' = h \cup SeenPlayers(Rows, HomeTeamId)
                /\ all_away_players' = a \cup SeenPlayers(Rows, AwayTeamId)
    /\ pc' = "replay"
    /\ UNCHANGED << parserVars, detectVars, extractVars, idx, statsVars,
                    starting_lineups, enhanced_plays, lineup_df >>

\* lines 568-813, one event whose fill loops end: the row is appended
ProcessPlay ==
    /\ pc = "replay" /\ idx < Len(Rows)
    /\ "player_name" \in DOMAIN Rows[idx + 1]
    /\ LET play == Rows[idx + 1]
       IN  \E L \in AfterEvent(play, Lineups) :
           \E sh \in FirstFive(L.home), sa \in FirstFive(L.away) :
           LET hn == NamesOf(sh, Roster, starting_lineups.home, Rows)
               an == NamesOf(sa, Roster, starting_lineups.away, Rows)
               hc == FillCandidates(L.all_home, L.home, Roster,
                                    starting_lineups.home, Rows)
               ac == FillCandidates(L.all_away, L.away, Roster,
                                    starting_lineups.away, Rows)
           IN  /\ BagCardinality(hn) < LineupSize => hc # {}
               /\ BagCardinality(an) < LineupSize => ac # {}
               /\ \E ch \in (IF BagCardinality(hn) < LineupSize THEN hc
                             ELSE {""}),
                     ca \in (IF BagCardinality(an) < LineupSize THEN ac
                             ELSE {""}) :
                     enhanced_plays' = Append(enhanced_plays,
                         EnhancedRow(play,
                             Placeholders(FillNames(hn, ch, Roster,
                                 starting_lineups.home, Rows)),
                             Placeholders(FillNames(an, ca, Roster,
                                 starting_lineups.away, Rows))))
               /\ current_home_lineup' = L.home
               /\ current_away_lineup' = L.away
               /\ all_home_players' = L.all_home
               /\ all_away_players' = L.all_away
    /\ idx' = idx + 1
    /\ UNCHANGED << parserVars, detectVars, extractVars, pc, statsVars,
                    starting_lineups, lineup_df >>

\* lines 681-729 and 732-780, one event whose fill loop finds no player to
\* take: every pass of the while loop leaves the list as it was
ProcessPlaySpins ==
    /\ pc = "replay" /\ idx < Len(Rows)
    /\ "player_name" \in DOMAIN Rows[idx + 1]
    /\ LET play == Rows[idx + 1]
       IN  \E L \in AfterEvent(play, Lineups) :
           \E sh \in FirstFive(L.home), sa \in FirstFive(L.away) :
           LET hn == NamesOf(sh, Roster, starting_lineups.home, Rows)
               an == NamesOf(sa, Roster, starting_lineups.away, Rows)
               hc == FillCandidates(L.all_home, L.home, Roster,
                                    starting_lineups.home, Rows)
               ac == FillCandidates(L.all_away, L.away, Roster,
                                    starting_lineups.away, Rows)
           IN  /\ \/ BagCardinality(hn) < LineupSize /\ hc = {}
                  \/ BagCardinality(an) < LineupSize /\ ac = {}
               /\ current_home_lineup' = L.home
               /\ current_away_lineup' = L.away
               /\ all_home_players' = L.all_home
               /\ all_away_players' = L.all_away
    /\ pc' = "spin"
    /\ UNCHANGED << parserVars, detectVars, extractVars, idx, statsVars,
                    starting_lineups, enhanced_plays, lineup_df >>

\* line 815
ReplayDone ==
    /\ pc = "replay" /\ idx = Len(Rows)
    /\ pc' = "replay_done"
    /\ UNCHANGED << parserVars, detectVars, extractVars, idx, statsVars,
                    lineupVars >>

NextLineup ==
    \/ LineupRaise
    \/ StartReplay
    \/ ProcessPlay
    \/ ProcessPlaySpins
    \/ ReplayDone

SpecLineup == InitLineup /\ [][NextLineup]_vars

(***************************************************************************)
(* Games with three or no declared home starters: the stream opens with    *)
(* nothing, with one basket by each of the six home players in jersey      *)
(* order (no starters) or with the baskets of two players who did not      *)
(* start (three starters), and goes on with the events of the lineup games.*)
(***************************************************************************)
HomeCheckNames == << "MARTIN,BO", "JONES,AL", "WEBB,DI", "PARK,ED",
                     "CRUZ,FLO", "STOUT,CY" >>

SixBaskets ==
    [ i \in 1..Len(HomeRoster) |->
        PlayElem("GOOD", "LAYUP", "18:00", "H", HomeRoster[i][1],
                 HomeCheckNames[i]) ]

\* the baskets of #4 and #5 only
TwoBaskets == SubSeq(SixBaskets, 4, 5)

\* the openings tried with k declared home starters
OpeningRuns(k) == IF k = 0 THEN { << >>, SixBaskets }
                  ELSE { << >>, TwoBaskets }

OpeningCounts == { << 0, 0 >>, << 0, 5 >>, << 3, 5 >> }

InitInfer ==
    /\ \E k \in OpeningCounts :
          /\ root = LineupRoot(k[1], k[2])
          /\ \E o \in OpeningRuns(k[1]), d \in LineupDocs :
                plays = GeniusStream(o \o d)
    /\ adapters = InitialAdapters
    /\ adapter = "genius_sports"
    /\ live = {} /\ first_run = << >>
    /\ xml_file = [ well_formed |-> TRUE, root |-> root ]
    /\ parser = ParserOf(adapter, root)
    /\ plays_df = create_plays_dataframe(NoPlaysDf, plays, parser)
    /\ pc = "lineup" /\ idx = 0
    /\ IdleStats
    /\ starting_lineups = StartingLineupsOf(adapter, root)
    /\ current_home_lineup = {} /\ current_away_lineup = {}
    /\ all_home_players = {} /\ all_away_players = {}
    /\ enhanced_plays = << >> /\ lineup_df = << >>

SpecInfer == InitInfer /\ [][NextLineup]_vars

(***************************************************************************)
(* PlayByPlayProcessor.create_lineup_dataframe: the per-period table of    *)
(* jersey numbers.  "" stands for a team id that is still None.            *)
(***************************************************************************)
\* plays_df['period'].unique(): the periods in order of first appearance
RECURSIVE UniquePeriods(_, _)
UniquePeriods(rows, seen) ==
    IF rows = << >> THEN << >>
    ELSE IF Head(rows).period \in seen THEN UniquePeriods(Tail(rows), seen)
    ELSE << Head(rows).period >>
         \o UniquePeriods(Tail(rows), seen \cup {Head(rows).period})

RECURSIVE PeriodPlays(_, _)
PeriodPlays(rows, period) ==
    IF rows = << >> THEN << >>
    ELSE (IF Head(rows).period = period THEN << Head(rows) >> ELSE << >>)
         \o PeriodPlays(Tail(rows), period)

\* lines 453-461: the first team id of the period that is not `other`
FirstTeamId(rows, other) ==
    LET S == { i \in 1..Len(rows) :
                 rows[i].team_id # "" /\ rows[i].team_id # other }
    IN  IF S = {} THEN ""
        ELSE rows[CHOOSE i \in S : \A j \in S : i <= j].team_id

\* lines 464-494
RECURSIVE LineupFold(_, _, _, _, _)
LineupFold(rows, home, away, hl, al) ==
    IF rows = << >> THEN << >>
    ELSE LET play == Head(rows)
             sub == Contains(Lower(play.event_type), "substitution")
             isHome == home # "" /\ play.team_id = home
             isAway == ~isHome /\ away # "" /\ play.team_id = away
             added == IF play.substitution_in # ""
                      THEN {play.substitution_in} ELSE {}
             hl2 == IF sub /\ isHome
                    THEN (hl \ {play.substitution_out}) \cup added ELSE hl
             al2 == IF sub /\ isAway
                    THEN (al \ {play.substitution_out}) \cup added ELSE al
         IN  << [ play_id |-> play.play_id, period |-> play.period,
                  time |-> play.time, home_team_id |-> home,
                  home_lineup |-> hl2, away_team_id |-> away,
                  away_lineup |-> al2 ] >>
             \o LineupFold(Tail(rows), home, away, hl2, al2)

RECURSIVE LineupPeriods(_, _)
LineupPeriods(rows, periods) ==
    IF periods = << >> THEN << >>
    ELSE LET period_plays == PeriodPlays(rows, Head(periods))
             home == FirstTeamId(period_plays, "")
             away == IF home = "" THEN "" ELSE FirstTeamId(period_plays, home)
         IN  LineupFold(period_plays, home, away, {}, {})
             \o LineupPeriods(rows, Tail(periods))

create_lineup_dataframe(rows) == LineupPeriods(rows, UniquePeriods(rows, {}))

(***************************************************************************)
(* PlayByPlayProcessor.process_all on a parsed document: the five tables   *)
(* in the order of lines 949-953.                                          *)
(***************************************************************************)
ProcessElems ==
    LineupElems \cup { GenericElem("shot", "19:30", "1"),
                       PlayElem("SUB", "IN", "20:00", "H", "6", "STOUT,CY") }

ProcessRoots ==
    { MkRoot(tag, "", venue, FALSE, "", teams, elems) :
        tag \in {"bbgame", "NBAGame", "game"},
        venue \in BOOLEAN,
        teams \in {NoTeams, LineupTeams(0, 0), LineupTeams(5, 5)},
        elems \in UNION { [1..n -> ProcessElems] : n \in 0..MaxPlays } }

InitProcess ==
    /\ root \in ProcessRoots
    /\ xml_file = [ well_formed |-> TRUE, root |-> root ]
    /\ adapters = InitialAdapters
    /\ adapter = get_adapter(adapters, root)
    /\ parser = ParserOf(adapter, root)
    /\ plays = ExtractPlaysOf(adapter, root)
    /\ live = {} /\ first_run = << >>
    /\ plays_df = NoPlaysDf
    /\ pc = "process_all" /\ idx = 0
    /\ IdleStats
    /\ starting_lineups = StartingLineupsOf(adapter, root)
    /\ current_home_lineup = {} /\ current_away_lineup = {}
    /\ all_home_players = {} /\ all_away_players = {}
    /\ enhanced_plays = << >> /\ lineup_df = << >>

\* line 949
CreatePlaysDataframe ==
    /\ pc = "process_all"
    /\ plays_df' = create_plays_dataframe(plays_df, plays, parser)
    /\ pc' = "fold"
    /\ UNCHANGED << parserVars, detectVars, plays, live, first_run, idx,
                    statsVars, lineupVars >>

\* line 203 raises KeyError
StatsKeyError ==
    /\ pc = "fold" /\ ~plays_df.is_none
    /\ idx < Len(Rows)
    /\ FoldRaises(player_stats, Rows[idx + 1])
    /\ pc' = "raised"
    /\ UNCHANGED << parserVars, detectVars, extractVars, idx, statsVars,
                    lineupVars >>

\* lines 568-600 and 822, one event of an adapter that emits no player_name:
\* the substitution is acted on, then _create_enhanced_event_description
\* raises KeyError on play['player_name']
ReplayKeyError ==
    /\ pc = "replay" /\ idx < Len(Rows)
    /\ "player_name" \notin DOMAIN Rows[idx + 1]
    /\ \E L \in AfterEvent(Rows[idx + 1], Lineups) :
          /\ current_home_lineup' = L.home
          /\ current_away_lineup' = L.away
          /\ all_home_players' = L.all_home
          /\ all_away_players' = L.all_away
    /\ pc' = "raised"
    /\ UNCHANGED << parserVars, detectVars, extractVars, idx, statsVars,
                    starting_lineups, enhanced_plays, lineup_df >>

\* line 952, then the call of line 953
CreateLineupDataframe ==
    /\ pc = "team_stats_done"
    /\ lineup_df' = create_lineup_dataframe(Rows)
    /\ pc' = "lineup"
    /\ idx' = 0
    /\ UNCHANGED << parserVars, detectVars, extractVars, statsVars,
                    starting_lineups, current_home_lineup,
                    current_away_lineup, all_home_players, all_away_players,
                    enhanced_plays >>

NextProcess ==
    \/ CreatePlaysDataframe
    \/ StatsRaise
    \/ StatsKeyError
    \/ FoldPlay
    \/ FinishPlayerStats
    \/ CreateTeamStats
    \/ CreateLineupDataframe
    \/ StartReplay
    \/ ProcessPlay
    \/ ProcessPlaySpins
    \/ ReplayKeyError
    \/ ReplayDone

SpecProcess == InitProcess /\ [][NextProcess]_vars

(***************************************************************************)
(* Claims about the aggregator (SpecStats).                                *)
(***************************************************************************)
RECURSIVE SumOfPlayers(_, _, _)
SumOfPlayers(rows, team, c) ==
    IF rows = << >> THEN 0
    ELSE (IF Head(rows).team_id = team THEN Head(rows)[c] ELSE 0)
         + SumOfPlayers(Tail(rows), team, c)

\* C4: after create_player_stats_dataframe and create_team_stats_dataframe
\* every team that has a player accumulator has a team row, and each of its
\* counters is the sum of that counter over the player accumulators of the
\* team; while events are folded no team total exists yet, so none is
\* incremented from an event.
C4_TeamTotalsAreSums ==
    /\ pc \in {"fold", "player_stats_done", "raised"} => team_stats = << >>
    /\ pc = "team_stats_done" =>
         /\ \A i \in 1..Len(player_stats) :
               HasRow(team_stats, "team_id", player_stats[i].team_id)
         /\ \A j \in 1..Len(team_stats) : \A c \in Counters :
               team_stats[j][c]
                 = SumOfPlayers(player_stats, team_stats[j].team_id, c)

\* two scoring players of one team have been summed into its total
C4_Witness ==
    /\ pc = "team_stats_done"
    /\ \E j \in 1..Len(team_stats) :
          /\ Cardinality({ i \in 1..Len(player_stats) :
                             /\ player_stats[i].team_id = team_stats[j].team_id
                             /\ player_stats[i].points > 0 }) >= 2
          /\ team_stats[j].points >= 4

MadeAttempted == { << "field_goals_made", "field_goals_attempted",
                      "field_goal_percentage" >>,
                   << "three_points_made", "three_points_attempted",
                      "three_point_percentage" >>,
                   << "free_throws_made", "free_throws_attempted",
                      "free_throw_percentage" >> }

\* the ratio p is made/attempted, or 0.0 when nothing was attempted
PercentageLaw(p, made, attempted) ==
    /\ p.den # 0
    /\ IF attempted > 0 THEN p.num * attempted = made * p.den ELSE p.num = 0

\* C5: in every player and team accumulator made <= attempted for field
\* goals, three-pointers and free throws, and once the percentages are
\* computed each is made/attempted, or 0.0 when attempted = 0 (no division
\* by zero).
C5_PercentageLaw ==
    /\ \A i \in 1..Len(player_stats) : \A m \in MadeAttempted :
          /\ player_stats[i][m[1]] <= player_stats[i][m[2]]
          /\ pc \in {"player_stats_done", "team_stats_done"} =>
                PercentageLaw(player_stats[i][m[3]], player_stats[i][m[1]],
                              player_stats[i][m[2]])
    /\ \A j \in 1..Len(team_stats) : \A m \in MadeAttempted :
          /\ team_stats[j][m[1]] <= team_stats[j][m[2]]
          /\ PercentageLaw(team_stats[j][m[3]], team_stats[j][m[1]],
                           team_stats[j][m[2]])

\* a finished player who attempted no free throw and missed a field goal,
\* on a team that made one
C5_Witness ==
    /\ pc = "team_stats_done"
    /\ \E i \in 1..Len(player_stats) :
          /\ player_stats[i].free_throws_attempted = 0
          /\ player_stats[i].free_throw_percentage = Zero
          /\ player_stats[i].field_goals_attempted > 0
          /\ player_stats[i].field_goals_made = 0
    /\ \E j \in 1..Len(team_stats) :
          /\ team_stats[j].field_goals_made > 0
          /\ team_stats[j].field_goals_made < team_stats[j].field_goals_attempted

\* the stream [made 3-point SHOT by P1 of team A, DEFENSIVE REBOUND by P2 of
\* team B]
C6_Scenario ==
    /\ Len(plays) = 2
    /\ plays[1].event_type = "shot" /\ plays[1].points = 3
    /\ plays[1].shot_type = "3pt"
    /\ plays[2].event_type = "rebound"
    /\ plays[2].rebound_type = "defensive"
    /\ plays[1].player_id # "" /\ plays[2].player_id # ""
    /\ plays[1].team_id # plays[2].team_id

CountersOf(row) == [ c \in Counters |-> row[c] ]

\* C6: folding that stream gives P1 exactly field_goals_made = 1,
\* field_goals_attempted = 1, three_points_made = 1,
\* three_points_attempted = 1, points = 3, gives P2 exactly rebounds = 1,
\* defensive_rebounds = 1, and leaves every other counter of both at 0.
C6_ScenarioStats ==
    (C6_Scenario /\ pc \in {"player_stats_done", "team_stats_done"}) =>
        /\ Len(player_stats) = 2
        /\ player_stats[1].player_id = plays[1].player_id
        /\ player_stats[2].player_id = plays[2].player_id
        /\ CountersOf(player_stats[1])
             = [ c \in Counters |->
                   CASE c = "points" -> 3
                     [] c \in {"field_goals_made", "field_goals_attempted",
                               "three_points_made", "three_points_attempted"}
                          -> 1
                     [] OTHER -> 0 ]
        /\ CountersOf(player_stats[2])
             = [ c \in Counters |->
                   IF c \in {"rebounds", "defensive_rebounds"} THEN 1 ELSE 0 ]

C6_Witness == C6_Scenario /\ pc = "team_stats_done" /\ Len(player_stats) = 2

(***************************************************************************)
(* Claims about format detection (SpecDetect).                             *)
(***************************************************************************)
\* C7: get_adapter tests the registered adapters in list order (Genius
\* Sports, NBA, Generic) and returns the first whose can_handle is true;
\* the generic adapter accepts every root, so an adapter is always returned.
C7_FirstRecognizerWins ==
    /\ adapters = << "genius_sports", "nba_pbp", "generic" >>
    /\ pc = "adapted" =>
         /\ adapter # "none"
         /\ \E i \in 1..Len(adapters) :
               /\ adapters[i] = adapter
               /\ CanHandle(adapters[i], root)
               /\ \A j \in 1..(i - 1) : ~CanHandle(adapters[j], root)
         /\ (adapter = "generic") <=>
               (~GeniusCanHandle(root) /\ ~NBACanHandle(root))

\* a root that two recognizers accept went to the earlier one
C7_Witness ==
    /\ pc = "adapted" /\ adapter = "genius_sports"
    /\ NBACanHandle(root) /\ GenericCanHandle(root)

(***************************************************************************)
(* Claims about the adapters' event streams (SpecExtract).                 *)
(***************************************************************************)
Unrecognized(action) ==
    \A kw \in KnownActions : ~Contains(Lower(action), kw)

\* C8: the Genius Sports mapping is total, and every action code that
\* matches none of the known substrings maps to the event kind OTHER with
\* points = 0.
C8_UnrecognizedMapsToOther ==
    \A i \in 1..Len(plays) :
        ("action" \in DOMAIN plays[i] /\ Unrecognized(plays[i].action)) =>
            (plays[i].event_type = "other" /\ plays[i].points = 0)

\* C9: no adapter emits a SUBSTITUTION event stamped at the first clock tick
\* of its period ("20:00").
C9_NoPeriodStartSubstitution ==
    \A i \in 1..Len(plays) :
        ~(/\ Contains(Lower(plays[i].event_type), "substitution")
          /\ plays[i].time = "20:00")

(***************************************************************************)
(* Claims about lineup reconstruction (SpecLineup).                        *)
(***************************************************************************)
\* C1: every lineup snapshot that create_enhanced_play_by_play_dataframe
\* produces lists exactly 5 entries for the home side and exactly 5 for the
\* away side, whatever the substitution records and the number of declared
\* starters.
C1_FivePerSide ==
    \A i \in 1..Len(enhanced_plays) :
        /\ BagCardinality(enhanced_plays[i].home_lineup) = LineupSize
        /\ BagCardinality(enhanced_plays[i].away_lineup) = LineupSize

\* a snapshot was produced for a side with fewer than 5 players on court,
\* after a substitution record that has no counterpart
C1_Witness ==
    /\ Len(enhanced_plays) >= 1
    /\ IsSubstitution(plays[Len(enhanced_plays)])
    /\ Cardinality(current_home_lineup) < LineupSize

\* C2: lineup reconstruction terminates for every event stream and every
\* starters input: the replay of an event never stays in a fill loop, also
\* when a side has fewer than 5 players on court and no observed player of
\* that side is off court.
C2_ReplayTerminates == pc # "spin"

SubOut(play, team, uni) ==
    /\ play.event_type = "substitution"
    /\ play.team_id = team /\ play.substitution_out = uni

SubIn(play, team, uni) ==
    /\ play.event_type = "substitution"
    /\ play.team_id = team /\ play.substitution_in = uni

Involves(play, team, p1, p3) ==
    /\ play.event_type = "substitution" /\ play.team_id = team
    /\ play.player_id \in { team \o "_" \o p1, team \o "_" \o p3 }

HomeName(uni) ==
    LineupName(HomeTeamId \o "_" \o uni, Roster, starting_lineups.home, plays)

\* C3: when P1, one of the five declared starters of the home team, is
\* replaced by P3 (P1 out and P3 in, as the first two events, in either
\* order), every later home snapshot contains P3 and not P1, until a later
\* substitution involves them.
C3_SubstitutionTakesEffect ==
    \A p1, p3 \in Unis :
        ( /\ Len(plays) >= 2
          /\ Len(starting_lineups.home) = LineupSize
          /\ HomeTeamId \o "_" \o p1 \in StarterIds(starting_lineups.home)
          /\ HomeTeamId \o "_" \o p3 \notin StarterIds(starting_lineups.home)
          /\ \/ SubOut(plays[1], HomeTeamId, p1)
                  /\ SubIn(plays[2], HomeTeamId, p3)
             \/ SubIn(plays[1], HomeTeamId, p3)
                  /\ SubOut(plays[2], HomeTeamId, p1) )
        => \A r \in 2..Len(enhanced_plays) :
              (\A j \in 3..r : ~Involves(plays[j], HomeTeamId, p1, p3))
              => /\ BagIn(HomeName(p3), enhanced_plays[r].home_lineup)
                 /\ ~BagIn(HomeName(p1), enhanced_plays[r].home_lineup)

(***************************************************************************)
(* Claims about two runs over one document (SpecTwice).                    *)
(***************************************************************************)
\* C10: the second of two independent runs over the same document yields
\* the event stream of the first, field by field, play_id included.
C10_RunsAgree ==
    (pc = "extracted" /\ first_run # << >>) => plays = first_run

(***************************************************************************)
(* Claims about parse() (SpecParse).                                       *)
(***************************************************************************)
\* C12: when the document is unreadable or not well-formed, parse returns
\* False, no adapter is selected, no extraction step runs, and game_info,
\* teams, players and plays stay empty as initialised.
C12_UnreadableDocumentFails ==
    ~xml_file.well_formed =>
        /\ pc \in {"parse", "returned_false"}
        /\ root = NoRoot
        /\ adapter = "none"
        /\ parser = EmptyParser
        /\ plays = << >>

\* parse has returned False
C12_Witness == ~xml_file.well_formed /\ pc = "returned_false"

(***************************************************************************)
(* Claims about process_all (SpecProcess).                                 *)
(***************************************************************************)
\* the fields of a play element that its row carries, whatever the adapter
SameEvent(row, elem) ==
    /\ row.time = Get(elem, "time", "")
    /\ IF adapter = "genius_sports"
       THEN /\ row.action = Get(elem, "action", "")
            /\ row.play_type = Get(elem, "type", "")
            /\ row.team_id = Get(elem, "team", "")
            /\ row.player_name = Get(elem, "checkname", "")
       ELSE /\ row.event_type = Get(elem, "event_type", "")
            /\ row.team_id = Get(elem, "team_id", "")
            /\ row.player_id = Get(elem, "player_id", "")

\* the element is not emitted
Dropped(elem) ==
    IF adapter = "genius_sports"
    THEN /\ Get(elem, "time", "") = "20:00"
         /\ _map_action_to_event_type(Get(elem, "action", ""),
                                      Get(elem, "type", ""))
              = "substitution"
    ELSE ParseRaises(elem)

\* C11: the rows of the plays table are the emitted events in document
\* order: row k comes from an element at a later position than row k - 1,
\* and the elements between them were not emitted.
C11_RowsInDocumentOrder ==
    ~plays_df.is_none =>
        \E f \in [ 1..Len(Rows) -> 1..Len(root.play_elements) ] :
            /\ \A k \in 1..Len(Rows) :
                  /\ SameEvent(Rows[k], root.play_elements[f[k]])
                  /\ k > 1 => f[k - 1] < f[k]
            /\ \A i \in 1..Len(root.play_elements) :
                  (\A k \in 1..Len(Rows) : f[k] # i)
                  => Dropped(root.play_elements[i])

\* a table of two rows made from two different elements
C11_Witness ==
    /\ ~plays_df.is_none /\ Len(Rows) >= 2
    /\ Rows[1].time # Rows[2].time

\* C13: process_all completes without raising for every well-formed
\* document, whichever adapter is selected, also when the event stream is
\* empty.
C13_ProcessAllCompletes == pc # "raised"


\* C14: two roster entries that the adapter registers receive the same
\* player identifier only if they have the same team_id and the same jersey
\* number.
C14_IdentifierFromTeamAndJersey ==
    pc \in {"players", "returned_true"} =>
        \A i, j \in 1..Len(PlayerElems(root.teams)) :
            LET a == PlayerElems(root.teams)[i]
                b == PlayerElems(root.teams)[j]
            IN  (RosterId(adapter, a) # ""
                 /\ RosterId(adapter, a) = RosterId(adapter, b))
                => /\ RosterTeam(adapter, a) = RosterTeam(adapter, b)
                   /\ RosterJersey(adapter, a) = RosterJersey(adapter, b)


(***************************************************************************)
(* Claims about the substitution transition (SpecLineup).                  *)
(***************************************************************************)
\* the event replayed by the step is a substitution record of the home team
HomeSubstitutionStep ==
    /\ pc = "replay" /\ idx < Len(Rows) /\ idx' = idx + 1
    /\ Rows[idx + 1].event_type = "substitution"
    /\ Rows[idx + 1].team_id = HomeTeamId

\* C15: on a substitution event of the home team, an exit (sub out) leaves
\* the outgoing player off the on-court set and adds nobody, and an entry
\* (sub in) into a set with room puts the incoming player on the set and
\* removes nobody, whatever the name in the description is.
C15_ExitRemovesEntryAdds ==
    [][ HomeSubstitutionStep =>
          LET play == Rows[idx + 1]
          IN  /\ play.substitution_out # "" =>
                    /\ play.player_id \notin current_home_lineup'
                    /\ current_home_lineup' \subseteq current_home_lineup
              /\ (play.substitution_in # ""
                  /\ Cardinality(current_home_lineup) < LineupSize) =>
                    /\ play.player_id \in current_home_lineup'
                    /\ current_home_lineup \subseteq current_home_lineup'
      ]_vars


\* the first declared home starter: the member inserted first
OldestHomeStarter == starting_lineups.home[1].player_id

\* C16: when the first event is the entry of a home player who is not among
\* the five declared home starters, the on-court set after the event has 5
\* members: the newcomer and the starters without the one inserted first.
C16_TrimDropsOldestInserted ==
    ( /\ pc = "replay" /\ idx = 1
      /\ Len(starting_lineups.home) = LineupSize
      /\ Rows[1].event_type = "substitution"
      /\ Rows[1].team_id = HomeTeamId
      /\ Rows[1].substitution_in # ""
      /\ Rows[1].player_id \notin StarterIds(starting_lineups.home) )
    => current_home_lineup =
           (StarterIds(starting_lineups.home) \ {OldestHomeStarter})
           \cup {Rows[1].player_id}


(***************************************************************************)
(* Claims about the initial on-court set without declared starters         *)
(* (SpecInfer).                                                            *)
(***************************************************************************)
\* the distinct player_ids of a team among rows 1..n, in order of first
\* appearance, at most k of them
RECURSIVE FirstAppearances(_, _, _, _, _)
FirstAppearances(rows, team, n, k, acc) ==
    IF n = 0 \/ rows = << >> \/ Len(acc) = k THEN acc
    ELSE LET r == Head(rows)
             fresh == /\ r.player_id # "" /\ r.team_id = team
                      /\ \A i \in 1..Len(acc) : acc[i] # r.player_id
         IN  FirstAppearances(Tail(rows), team, n - 1, k,
                 IF fresh THEN Append(acc, r.player_id) ELSE acc)

FirstFiveSeen(rows, team) ==
    LET f == FirstAppearances(rows, team, EarlyPlays, LineupSize, << >>)
    IN  { f[i] : i \in 1..Len(f) }

\* C17: without declared home starters, the home on-court set at the start
\* of the replay is exactly the first 5 distinct home player_ids, in order of
\* first appearance, within the first 20 events.
C17_InferredStartersAreFirstFive ==
    (pc = "replay" /\ idx = 0 /\ Len(starting_lineups.home) = 0)
    => current_home_lineup = FirstFiveSeen(Rows, HomeTeamId)


(***************************************************************************)
(* Claims about the completion of a snapshot (SpecInfer).                  *)
(***************************************************************************)
\* the observed home players who are off court and can be named
HomeOffCourt ==
    FillCandidates(all_home_players, current_home_lineup, Roster,
                   starting_lineups.home, Rows)

HomeOnCourtNames ==
    NamesOf(current_home_lineup, Roster, starting_lineups.home, Rows)

\* C18: when the home on-court set has k < 5 members at an event, the
\* snapshot of the event lists the on-court players and, in the remaining
\* 5-k slots, that many different observed off-court home players (all of
\* them when fewer are known), before any placeholder.
C18_FillTakesOffCourtPlayers ==
    ( /\ pc = "replay" /\ idx >= 1 /\ Len(enhanced_plays) = idx
      /\ Cardinality(current_home_lineup) < LineupSize )
    => \E T \in SUBSET HomeOffCourt :
          /\ Cardinality(T) = Min(LineupSize - BagCardinality(HomeOnCourtNames),
                                  Cardinality(HomeOffCourt))
          /\ (HomeOnCourtNames
              (+) NamesOf(T, Roster, starting_lineups.home, Rows))
             \sqsubseteq enhanced_plays[idx].home_lineup


\* C19: when the home on-court players and the observed off-court home
\* players together give fewer than 5 names, the snapshot of the event is
\* those names, each once, completed to 5 entries with the placeholders
\* "Player #1", "Player #2", ...
C19_PlaceholdersComplete ==
    ( /\ pc = "replay" /\ idx >= 1 /\ Len(enhanced_plays) = idx
      /\ BagCardinality(HomeOnCourtNames) + Cardinality(HomeOffCourt)
           < LineupSize )
    => enhanced_plays[idx].home_lineup =
           Placeholders(HomeOnCourtNames
               (+) NamesOf(HomeOffCourt, Roster, starting_lineups.home, Rows))


(***************************************************************************)
(* Claims about shot and free-throw accounting (SpecStats).                *)
(***************************************************************************)
\* the events of a type by a player among the rows folded so far; made: only
\* those with points > 0
EventsOf(pid, type, made) ==
    Cardinality({ k \in 1..Min(idx, Len(Rows)) :
                    /\ Rows[k].player_id = pid
                    /\ Rows[k].event_type = type
                    /\ made => Rows[k].points > 0 })

\* C20: for every player, field_goals_attempted is the number of the
\* player's SHOT events and free_throws_attempted the number of the player's
\* FREE_THROW events; field_goals_made and free_throws_made are the numbers
\* of those events with points > 0.
C20_AttemptsCountEvents ==
    \A i \in 1..Len(player_stats) :
        LET st == player_stats[i]
        IN  /\ st.field_goals_attempted = EventsOf(st.player_id, "shot", FALSE)
            /\ st.field_goals_made = EventsOf(st.player_id, "shot", TRUE)
            /\ st.free_throws_attempted
                 = EventsOf(st.player_id, "free_throw", FALSE)
            /\ st.free_throws_made
                 = EventsOf(st.player_id, "free_throw", TRUE)

\* a finished player with one missed shot and one made free throw, and
\* another with a missed free throw
C20_Witness ==
    /\ pc = "team_stats_done"
    /\ \E i \in 1..Len(player_stats) :
          /\ player_stats[i].field_goals_attempted = 1
          /\ player_stats[i].field_goals_made = 0
          /\ player_stats[i].free_throws_attempted = 1
          /\ player_stats[i].free_throws_made = 1


\* the SHOT events of a shot kind by a player among the rows folded so far;
\* made: only those with points > 0
ShotsOf(pid, kind, made) ==
    Cardinality({ k \in 1..Min(idx, Len(Rows)) :
                    /\ Rows[k].player_id = pid
                    /\ Rows[k].event_type = "shot"
                    /\ Rows[k].shot_type = kind
                    /\ made => Rows[k].points > 0 })

\* C21: for every player, three_points_attempted is the number of the
\* player's SHOT events of kind 3PT, made or missed, and three_points_made
\* the number of those with points > 0; a 2PT shot changes neither counter.
C21_ThreePointersCountEvents ==
    \A i \in 1..Len(player_stats) :
        LET st == player_stats[i]
        IN  /\ st.three_points_attempted = ShotsOf(st.player_id, "3pt", FALSE)
            /\ st.three_points_made = ShotsOf(st.player_id, "3pt", TRUE)


(***************************************************************************)
(* Claims about starters and the replay under process_all (SpecProcess).   *)
(***************************************************************************)
\* no player element of the document carries gs="1"
NoStartedFlag ==
    \A i \in 1..Len(PlayerElems(root.teams)) :
        PGet(PlayerElems(root.teams)[i].elem, "gs") # "1"

\* the initial set is what the fallback gives: the players of the team seen
\* in the first 20 events, at most 5 of them
FromFallback(S, team) ==
    /\ S \subseteq EarlyPlayers(Rows, team)
    /\ Cardinality(S) = Min(LineupSize, Cardinality(EarlyPlayers(Rows, team)))

\* C22: the NBA and generic adapters, and the Genius Sports adapter on a
\* roster without started flags, give empty starters lists for both sides,
\* and the replay then starts each side from the players inferred from the
\* early events.
C22_NoStartersMeansFallback ==
    (adapter \in {"nba_pbp", "generic"} \/ NoStartedFlag) =>
        /\ starting_lineups = NoStarters
        /\ (pc = "replay" /\ idx = 0) =>
              /\ FromFallback(current_home_lineup, HomeTeamId)
              /\ FromFallback(current_away_lineup, AwayTeamId)

\* the replay of a Genius Sports document with a roster and no started flag
\* starts from an inferred home player
C22_Witness ==
    /\ pc = "replay" /\ idx = 0
    /\ adapter = "genius_sports" /\ root.teams # NoTeams /\ NoStartedFlag
    /\ current_home_lineup # {}


(***************************************************************************)
(* Frame claims about the replay (SpecLineup).                             *)
(***************************************************************************)
\* C23: a step of the replay on an event that is not a SUBSTITUTION leaves
\* both on-court sets as they were, also when the snapshot of the event is
\* filled or cut for display.
C23_OtherEventsKeepLineups ==
    [][ ( /\ pc = "replay" /\ idx < Len(Rows)
          /\ Rows[idx + 1].event_type # "substitution" )
        => /\ current_home_lineup' = current_home_lineup
           /\ current_away_lineup' = current_away_lineup ]_vars

\* a basket was replayed with fewer than 5 home players on court, its
\* snapshot filled from the players off court
C23_Witness ==
    /\ pc = "replay" /\ idx >= 1 /\ Len(enhanced_plays) = idx
    /\ Rows[idx].event_type = "shot"
    /\ Cardinality(current_home_lineup) < LineupSize
    /\ BagCardinality(enhanced_plays[idx].home_lineup) = LineupSize


\* C24: when both sides have declared starters and the first event is a
\* SUBSTITUTION of the home team, the away on-court set after the event is
\* still the set of the declared away starters, also when there are more
\* than 5 of them.
C24_OtherTeamUnchanged ==
    ( /\ pc = "replay" /\ idx = 1
      /\ Len(starting_lineups.home) > 0 /\ Len(starting_lineups.away) > 0
      /\ Rows[1].event_type = "substitution"
      /\ Rows[1].team_id = HomeTeamId )
    => current_away_lineup = StarterIds(starting_lineups.away)


\* C25: in every lineup snapshot each player is listed at most once, home
\* side and away side.
C25_NoPlayerTwice ==
    \A i \in 1..Len(enhanced_plays) :
        /\ \A n \in BagToSet(enhanced_plays[i].home_lineup) :
              CopiesIn(n, enhanced_plays[i].home_lineup) = 1
        /\ \A n \in BagToSet(enhanced_plays[i].away_lineup) :
              CopiesIn(n, enhanced_plays[i].away_lineup) = 1


(***************************************************************************)
(* Claims about the accumulators over Genius Sports streams (SpecStats).   *)
(***************************************************************************)
\* C26: every player accumulator has points = 3 * three_points_made
\* + 2 * (field_goals_made - three_points_made) + free_throws_made, and an
\* event of the stream has points > 0 only when it is a SHOT or a
\* FREE_THROW.
C26_PointsIdentity ==
    /\ \A i \in 1..Len(player_stats) :
          player_stats[i].points
            = 3 * player_stats[i].three_points_made
              + 2 * (player_stats[i].field_goals_made
                     - player_stats[i].three_points_made)
              + player_stats[i].free_throws_made
    /\ \A k \in 1..Len(Rows) :
          Rows[k].points > 0
            => Rows[k].event_type \in {"shot", "free_throw"}

\* a finished player with a three-pointer and a two-point basket
C26_Witness ==
    /\ pc = "team_stats_done"
    /\ \E i \in 1..Len(player_stats) :
          /\ player_stats[i].three_points_made = 1
          /\ player_stats[i].field_goals_made = 2
          /\ player_stats[i].points = 5


\* the REBOUND events of a player among the rows folded so far; offensive:
\* only those of kind OFFENSIVE
ReboundsOf(pid, offensive) ==
    Cardinality({ k \in 1..Min(idx, Len(Rows)) :
                    /\ Rows[k].player_id = pid
                    /\ Rows[k].event_type = "rebound"
                    /\ offensive => Rows[k].rebound_type = "offensive" })

\* C27: in every player accumulator rebounds = offensive_rebounds
\* + defensive_rebounds; rebounds is the number of the player's REBOUND
\* events and offensive_rebounds the number of those of kind OFFENSIVE, so
\* each REBOUND event counts for exactly one of the two kinds.
C27_ReboundsSplit ==
    \A i \in 1..Len(player_stats) :
        LET st == player_stats[i]
        IN  /\ st.rebounds = st.offensive_rebounds + st.defensive_rebounds
            /\ st.rebounds = ReboundsOf(st.player_id, FALSE)
            /\ st.offensive_rebounds = ReboundsOf(st.player_id, TRUE)

\* a finished stream with an offensive rebound by one player and a defensive
\* rebound by another
C27_Witness ==
    /\ pc = "team_stats_done"
    /\ \E i, j \in 1..Len(player_stats) :
          /\ player_stats[i].offensive_rebounds = 1
          /\ player_stats[i].defensive_rebounds = 0
          /\ player_stats[j].defensive_rebounds = 1
          /\ player_stats[j].offensive_rebounds = 0


(***************************************************************************)
(* Claims about the periods of the emitted events (SpecExtract).           *)
(***************************************************************************)
\* the play element an emitted Genius Sports event was read from
ReadFrom(play, elem) ==
    /\ play.time = Get(elem, "time", "")
    /\ play.action = Get(elem, "action", "")
    /\ play.play_type = Get(elem, "type", "")

\* C28: every event the Genius Sports adapter emits carries the number of
\* the period element that encloses its play element, and period 1 when no
\* period element encloses it.
C28_PeriodOfEnclosingElement ==
    adapter = "genius_sports" =>
        \A k \in 1..Len(plays) :
            \E i \in 1..Len(root.play_elements) :
                /\ ReadFrom(plays[k], root.play_elements[i])
                /\ plays[k].period
                     = IF root.play_elements[i].parent > 0
                       THEN root.play_elements[i].parent ELSE 1


(***************************************************************************)
(* Claims about the enhanced play-by-play table (SpecLineup).              *)
(***************************************************************************)
\* C29: the enhanced table is built in one forward pass: its i-th row is
\* the row of the i-th play of the plays table (same play_id, same event),
\* one row is added per event replayed, and the finished table has exactly
\* one row per play, substitutions included.
C29_OneRowPerPlay ==
    /\ Len(enhanced_plays) <= Len(Rows)
    /\ \A i \in 1..Len(enhanced_plays) :
          /\ enhanced_plays[i].play_id = Rows[i].play_id
          /\ enhanced_plays[i].event_type = Rows[i].event_type
    /\ pc = "replay" => Len(enhanced_plays) = idx
    /\ pc = "replay_done" => Len(enhanced_plays) = Len(Rows)

\* a finished table of two rows, the first a substitution, the second a
\* basket
C29_Witness ==
    /\ pc = "replay_done" /\ Len(enhanced_plays) = 2
    /\ enhanced_plays[1].event_type = "substitution"
    /\ enhanced_plays[2].event_type = "shot"
    /\ enhanced_plays[1].play_id # enhanced_plays[2].play_id


(***************************************************************************)
(* Claims about registered adapters (SpecAdd).                             *)
(***************************************************************************)
\* the adapter get_adapter returned is the first of the list that accepts
\* the root
ReturnsFirstAccepting ==
    /\ adapter # "none"
    /\ \E i \in 1..Len(adapters) :
          /\ adapters[i] = adapter
          /\ CanHandle(adapters[i], root)
          /\ \A j \in 1..(i - 1) : ~CanHandle(adapters[j], root)

\* C30: every add_adapter call puts the new adapter in front of all the
\* adapters registered before, in their order; the generic adapter stays
\* last in the list; and get_adapter returns an adapter for every root, the
\* first of the list that accepts it.
C30_AddedAdapterFirst ==
    /\ [](/\ adapters[Len(adapters)] = "generic"
          /\ pc = "adapted" => ReturnsFirstAccepting)
    /\ [][ adapters' # adapters =>
             /\ Len(adapters') = Len(adapters) + 1
             /\ Tail(adapters') = adapters ]_vars

\* two adapters were added, the later one a custom adapter, and it was
\* returned for a root that the Genius Sports adapter accepts too
C30_Witness ==
    /\ pc = "adapted"
    /\ Len(adapters) = Len(InitialAdapters) + 2
    /\ adapters[1] = "custom" /\ adapter = "custom"
    /\ GeniusCanHandle(root)

=============================================================================
